---------------------------- MODULE Spec2Model ----------------------------
(***************************************************************************)
(* A model of the CREATE TABLE grammar of nom-sql (src/create.rs), of the  *)
(* lexical primitives it rests on (src/common.rs) and of the formatter     *)
(* (Display impls of src/create.rs and src/foreignkey.rs).                 *)
(*                                                                         *)
(* A byte buffer is a sequence of one-character strings; the string "0xFF" *)
(* stands for the single byte 0xFF, which is never part of valid UTF-8,    *)
(* and "0x60" for the backtick.                                            *)
(* A parser is an operator P(s, i): s is the whole buffer, i the index of  *)
(* the first byte not yet consumed (the remainder is s[i..Len(s)]).  It    *)
(* returns a record [st, pos, val]: st is "Done", "Failed" or "Panic" (an  *)
(* unwrap() or assert! that aborts the thread), pos the index after the    *)
(* consumed prefix, val the value.  The grammar of create.rs runs on       *)
(* CompleteByteSlice, so no parser returns Incomplete.                     *)
(***************************************************************************)
EXTENDS Integers, Sequences, FiniteSets, TLC

VARIABLES
    input,      \* the byte buffer handed to the parser
    shape,      \* how the buffer was written: its clauses and their kinds
    pc,         \* "write", "start", "parsed", "rendered", "reparsed"
    op,         \* the entry parser that ran ("none" before any ran)
    out,        \* its result
    text,       \* the Display rendering of out.val (<<>> before rendering)
    out2        \* the result of parsing text again

vars == <<input, shape, pc, op, out, text, out2>>

-----------------------------------------------------------------------------
(* Option<T>: None is <<>>, Some(v) is <<v>>. *)
None == <<>>
Some(v) == <<v>>
IsSome(o) == Len(o) = 1
Unwrap(o) == o[1]

(* IResult, with the abort of the thread as a fourth outcome. *)
Done(p, v) == [st |-> "Done", pos |-> p, val |-> v]
Failed == [st |-> "Failed", pos |-> 0, val |-> <<>>]
Panic == [st |-> "Panic", pos |-> 0, val |-> <<>>]
NoResult == [st |-> "none", pos |-> 0, val |-> <<>>]

(* The remainder of buffer s at index i. *)
Rest(s, i) == SubSeq(s, i, Len(s))

-----------------------------------------------------------------------------
(* Bytes *)
LowerLetters ==
    {"a","b","c","d","e","f","g","h","i","j","k","l","m",
     "n","o","p","q","r","s","t","u","v","w","x","y","z"}
UpperLetters ==
    {"A","B","C","D","E","F","G","H","I","J","K","L","M",
     "N","O","P","Q","R","S","T","U","V","W","X","Y","Z"}
Digits == {"0","1","2","3","4","5","6","7","8","9"}

ToLower ==
    ("A" :> "a") @@ ("B" :> "b") @@ ("C" :> "c") @@ ("D" :> "d") @@
    ("E" :> "e") @@ ("F" :> "f") @@ ("G" :> "g") @@ ("H" :> "h") @@
    ("I" :> "i") @@ ("J" :> "j") @@ ("K" :> "k") @@ ("L" :> "l") @@
    ("M" :> "m") @@ ("N" :> "n") @@ ("O" :> "o") @@ ("P" :> "p") @@
    ("Q" :> "q") @@ ("R" :> "r") @@ ("S" :> "s") @@ ("T" :> "t") @@
    ("U" :> "u") @@ ("V" :> "v") @@ ("W" :> "w") @@ ("X" :> "x") @@
    ("Y" :> "y") @@ ("Z" :> "z")

(* u8::to_ascii_lowercase, as tag_no_case! compares *)
Lower(c) == IF c \in UpperLetters THEN ToLower[c] ELSE c

(* The backtick byte (0x60), which a TLA+ string literal cannot hold. *)
Backtick == "0x60"

(* nom::is_alphanumeric *)
is_alphanumeric(c) == c \in LowerLetters \/ c \in UpperLetters \/ c \in Digits

is_sql_identifier(c) == is_alphanumeric(c) \/ c = "_"

(* nom::multispace's byte class *)
is_space(c) == c \in {" ", "\t", "\r", "\n"}

(* str::from_utf8 / String::from_utf8 succeed: all bytes modelled are ASCII
   except 0xFF *)
valid_utf8(bytes) == \A k \in 1..Len(bytes) : bytes[k] # "0xFF"

-----------------------------------------------------------------------------
(* nom primitives on a complete buffer *)

(* tag!(t) *)
tag(t, s, i) ==
    IF i + Len(t) - 1 <= Len(s) /\ \A k \in 1..Len(t) : s[i + k - 1] = t[k]
    THEN Done(i + Len(t), t)
    ELSE Failed

(* tag_no_case!(t) / caseless_tag!(t): the value is the matched input slice *)
tag_no_case(t, s, i) ==
    IF i + Len(t) - 1 <= Len(s)
       /\ \A k \in 1..Len(t) : Lower(s[i + k - 1]) = Lower(t[k])
    THEN Done(i + Len(t), SubSeq(s, i, i + Len(t) - 1))
    ELSE Failed

(* byte classes of the take_while1! and nom recognisers used below *)
InClass(cls, c) ==
    CASE cls = "space" -> is_space(c)
      [] cls = "digit" -> c \in Digits
      [] cls = "alnum" -> is_alphanumeric(c)
      [] cls = "ident" -> is_sql_identifier(c)

(* the index after the maximal run of bytes of class cls starting at i *)
RECURSIVE RunEnd(_, _, _)
RunEnd(cls, s, i) ==
    IF i <= Len(s) /\ InClass(cls, s[i]) THEN RunEnd(cls, s, i + 1) ELSE i

(* take_while1!(class) *)
take_while1(cls, s, i) ==
    LET e == RunEnd(cls, s, i)
    IN  IF e > i THEN Done(e, SubSeq(s, i, e - 1)) ELSE Failed

(* nom::multispace: one or more of space, tab, CR, LF *)
multispace(s, i) == take_while1("space", s, i)

(* opt!(multispace): never fails *)
opt_multispace(s, i) ==
    LET e == RunEnd("space", s, i)
    IN  Done(e, SubSeq(s, i, e - 1))

(* nom::digit: one or more ASCII digits *)
digit(s, i) == take_while1("digit", s, i)

(* nom::alphanumeric: one or more ASCII letters or digits *)
alphanumeric(s, i) == take_while1("alnum", s, i)

(* take_until!("'"): the bytes before the first quote at or after i; fails
   when there is none *)
RECURSIVE take_until_quote(_, _, _)
take_until_quote(s, i, from) ==
    IF i > Len(s) THEN Failed
    ELSE IF s[i] = "'" THEN Done(i, SubSeq(s, from, i - 1))
    ELSE take_until_quote(s, i + 1, from)

(* nom::eof *)
eof(s, i) == IF i > Len(s) THEN Done(i, <<>>) ELSE Failed

(* nom::line_ending *)
line_ending(s, i) ==
    IF tag(<<"\n">>, s, i).st = "Done" THEN tag(<<"\n">>, s, i)
    ELSE tag(<<"\r", "\n">>, s, i)

-----------------------------------------------------------------------------
(* The bytes of a string literal. *)
B(str) == [k \in 1..Len(str) |-> SubSeq(str, k, k)]

(* [u8]::to_ascii_lowercase *)
LowerSeq(bytes) == [k \in 1..Len(bytes) |-> Lower(bytes[k])]

(* The reserved words (keywords.rs is not part of the sources at hand): the
   words of the keyword table that the CREATE TABLE grammar meets. *)
Keywords ==
    {B("all"), B("and"), B("as"), B("asc"), B("autoincrement"), B("collate"),
     B("constraint"), B("create"), B("default"), B("delete"), B("desc"),
     B("foreign"), B("from"), B("fulltext"), B("index"), B("key"), B("like"),
     B("not"), B("null"), B("on"), B("or"), B("primary"), B("references"),
     B("restrict"), B("select"), B("set"), B("table"), B("union"),
     B("unique"), B("update"), B("view"), B("where")}

(* The grammar rules call one another by name through named, which is defined
   after the last of them. *)
RECURSIVE named(_, _, _)

(* is_reserved(identifier) *)
is_reserved(name) == LowerSeq(name) \in Keywords

(* sql_keyword: the identifier at i is a reserved word *)
sql_keyword(s, i) ==
    LET e == RunEnd("ident", s, i)
    IN  IF e > i /\ is_reserved(SubSeq(s, i, e - 1))
        THEN Done(e, SubSeq(s, i, e - 1))
        ELSE Failed

(* escape_if_keyword: a reserved word is written between backticks *)
escape_if_keyword(name) ==
    IF is_reserved(name) THEN <<Backtick>> \o name \o <<Backtick>> ELSE name

(* delimited!(tag!(q), take_while1!(is_sql_identifier), tag!(q)) *)
quoted_identifier(q, s, i) ==
    IF tag(<<q>>, s, i).st # "Done" THEN Failed
    ELSE LET r == take_while1("ident", s, i + 1)
         IN  IF r.st # "Done" THEN Failed
             ELSE IF tag(<<q>>, s, r.pos).st # "Done" THEN Failed
             ELSE Done(r.pos + 1, r.val)

(* sql_identifier, with its keyword guard dropped *)
sql_identifier_any_bare(s, i) ==
    LET bare == take_while1("ident", s, i)
    IN  IF bare.st = "Done" THEN bare
        ELSE IF quoted_identifier(Backtick, s, i).st = "Done"
        THEN quoted_identifier(Backtick, s, i)
        ELSE quoted_identifier("'", s, i)

(* Parses a SQL identifier (alphanumeric and "_"). *)
sql_identifier(s, i) ==
    LET bare == take_while1("ident", s, i)
    IN  IF named("sql_keyword", s, i).st # "Done" /\ bare.st = "Done" THEN bare
        ELSE IF quoted_identifier(Backtick, s, i).st = "Done"
        THEN quoted_identifier(Backtick, s, i)
        ELSE quoted_identifier("'", s, i)

(* Parse rule for AS-based aliases for SQL entities. *)
as_alias(s, i) ==
    LET r1 == multispace(s, i) IN
    IF r1.st # "Done" THEN Failed ELSE
    LET r2 == tag_no_case(B("as"), s, r1.pos) IN
    IF r2.st # "Done" THEN Failed ELSE
    LET r3 == multispace(s, r2.pos) IN
    IF r3.st # "Done" THEN Failed ELSE
    named("sql_identifier", s, r3.pos)

(* Table { name, alias } *)
Table(name, alias) == [name |-> name, alias |-> alias]

(* Parse a reference to a named table *)
table_reference(s, i) ==
    LET r1 == named("sql_identifier", s, i) IN
    IF r1.st # "Done" THEN Failed ELSE
    LET r2 == named("as_alias", s, r1.pos) IN
    IF r2.st = "Done"
    THEN Done(r2.pos, Table(r1.val, Some(r2.val)))
    ELSE Done(r1.pos, Table(r1.val, None))

-----------------------------------------------------------------------------
(* Expression and column grammar (common.rs) *)

(* Column { name, alias, table, function } *)
Column(name, alias, table, function) ==
    [name |-> name, alias |-> alias, table |-> table, function |-> function]

(* FieldExpression::All and FieldExpression::Seq(cols) *)
FieldAll == [all |-> TRUE, cols |-> <<>>]
FieldSeq(cols) == [all |-> FALSE, cols |-> cols]

(* FunctionExpression::{Count, Sum, Avg, Max, Min}(arg) and
   GroupConcat(arg, sep) *)
FunctionExpression(fn, arg, sep) == [fn |-> fn, arg |-> arg, sep |-> sep]

(* [String].join(sep) *)
RECURSIVE Join(_, _)
Join(strs, sep) ==
    IF Len(strs) = 0 THEN <<>>
    ELSE IF Len(strs) = 1 THEN strs[1]
    ELSE strs[1] \o sep \o Join(Tail(strs), sep)

(* impl Display for FieldExpression *)
DisplayFieldExpression(fe) ==
    IF fe.all THEN B("all")
    ELSE Join([k \in 1..Len(fe.cols) |-> fe.cols[k].name], B(", "))

(* impl Display for FunctionExpression (column.rs is not part of the sources
   at hand): the lower-case function name around its argument *)
DisplayFunctionExpression(f) ==
    IF f.fn = "group_concat"
    THEN B("group_concat(") \o DisplayFieldExpression(f.arg) \o B(", ")
         \o f.sep \o B(")")
    ELSE B(f.fn) \o B("(") \o DisplayFieldExpression(f.arg) \o B(")")

(* opt!(complete!(chain!(multispace? ~ tag!(",") ~ multispace?))): the index
   after an optional comma with its surrounding whitespace *)
opt_comma(s, i) ==
    LET c == tag(<<",">>, s, opt_multispace(s, i).pos)
    IN  IF c.st = "Done" THEN opt_multispace(s, c.pos).pos ELSE i

RECURSIVE field_list_from(_, _, _)

(* Parse rule for a comma-separated list of fields without aliases: many0!
   of a column followed by an optional comma *)
field_list_from(s, i, acc) ==
    LET r == named("column_identifier_no_alias", s, i)
    IN  IF r.st # "Done" THEN Done(i, acc)
        ELSE field_list_from(s, opt_comma(s, r.pos), Append(acc, r.val))

field_list(s, i) == field_list_from(s, i, <<>>)

(* Parse list of columns/fields. *)
field_expr(s, i) ==
    IF tag(<<"*">>, s, i).st = "Done" THEN Done(i + 1, FieldAll)
    ELSE LET r == named("field_list", s, i) IN Done(r.pos, FieldSeq(r.val))

(* caseless_tag!(fn) ~ delimited!(tag!("("), field_expr, tag!(")")) *)
aggregate(fn, s, i) ==
    LET r1 == tag_no_case(B(fn), s, i) IN
    IF r1.st # "Done" THEN Failed ELSE
    IF tag(<<"(">>, s, r1.pos).st # "Done" THEN Failed ELSE
    LET r2 == named("field_expr", s, r1.pos + 1) IN
    IF tag(<<")">>, s, r2.pos).st # "Done" THEN Failed ELSE
    Done(r2.pos + 1, FunctionExpression(fn, r2.val, <<>>))

(* opt!(chain!(multispace? ~ caseless_tag!("separator") ~
   delimited!(tag!("'"), alphanumeric, tag!("'")) ~ multispace?)) *)
opt_separator(s, i) ==
    LET r1 == tag_no_case(B("separator"), s, opt_multispace(s, i).pos) IN
    IF r1.st # "Done" THEN Done(i, None) ELSE
    IF tag(<<"'">>, s, r1.pos).st # "Done" THEN Done(i, None) ELSE
    LET r2 == alphanumeric(s, r1.pos + 1) IN
    IF r2.st # "Done" THEN Done(i, None) ELSE
    IF tag(<<"'">>, s, r2.pos).st # "Done" THEN Done(i, None) ELSE
    Done(opt_multispace(s, r2.pos + 1).pos, Some(r2.val))

(* the group_concat alternative of column_function *)
group_concat(s, i) ==
    LET r1 == tag_no_case(B("group_concat"), s, i) IN
    IF r1.st # "Done" THEN Failed ELSE
    IF tag(<<"(">>, s, r1.pos).st # "Done" THEN Failed ELSE
    LET r2 == named("field_expr", s, r1.pos + 1)
        r3 == opt_separator(s, r2.pos)
    IN
    IF tag(<<")">>, s, r3.pos).st # "Done" THEN Failed ELSE
    Done(r3.pos + 1,
         FunctionExpression("group_concat", r2.val,
             \* default separator is a comma
             IF IsSome(r3.val) THEN Unwrap(r3.val) ELSE <<",">>))

column_function(s, i) ==
    IF aggregate("count", s, i).st = "Done" THEN aggregate("count", s, i)
    ELSE IF aggregate("sum", s, i).st = "Done" THEN aggregate("sum", s, i)
    ELSE IF aggregate("avg", s, i).st = "Done" THEN aggregate("avg", s, i)
    ELSE IF aggregate("max", s, i).st = "Done" THEN aggregate("max", s, i)
    ELSE IF aggregate("min", s, i).st = "Done" THEN aggregate("min", s, i)
    ELSE named("group_concat", s, i)

(* opt!(chain!(tbl_name: sql_identifier ~ tag!("."))) *)
opt_table_qualifier(s, i) ==
    LET r == named("sql_identifier", s, i)
    IN  IF r.st = "Done" /\ tag(<<".">>, s, r.pos).st = "Done"
        THEN Done(r.pos + 1, Some(r.val))
        ELSE Done(i, None)

(* Parses a SQL column identifier in the table.column format *)
column_identifier_no_alias(s, i) ==
    LET f == named("column_function", s, i) IN
    IF f.st = "Done"
    THEN Done(f.pos, Column(DisplayFunctionExpression(f.val), None, None,
                            Some(f.val)))
    ELSE LET t == opt_table_qualifier(s, i)
             c == named("sql_identifier", s, t.pos)
         IN  IF c.st # "Done" THEN Failed
             ELSE Done(c.pos, Column(c.val, None, t.val, None))

column_identifier_rendering_kept(s, i) ==
    LET f == named("column_function", s, i) IN
    IF f.st = "Done"
    THEN LET alias == named("as_alias", s, f.pos) IN
         IF alias.st = "Done"
         THEN Done(alias.pos, Column(DisplayFunctionExpression(f.val), Some(alias.val), None,
                                     Some(f.val)))
         ELSE Done(f.pos, Column(DisplayFunctionExpression(f.val), None, None,
                                 Some(f.val)))
    ELSE LET t == opt_table_qualifier(s, i)
             c == named("sql_identifier", s, t.pos)
         IN  IF c.st # "Done" THEN Failed ELSE
             LET alias == named("as_alias", s, c.pos) IN
             IF alias.st = "Done"
             THEN Done(alias.pos, Column(c.val, Some(alias.val), t.val, None))
             ELSE Done(c.pos, Column(c.val, None, t.val, None))

(* Parses a SQL column identifier in the table.column format, with an
   optional alias *)
column_identifier(s, i) ==
    LET f == named("column_function", s, i) IN
    IF f.st = "Done"
    THEN LET alias == named("as_alias", s, f.pos) IN
         IF alias.st = "Done"
         THEN Done(alias.pos, Column(alias.val, Some(alias.val), None,
                                     Some(f.val)))
         ELSE Done(f.pos, Column(DisplayFunctionExpression(f.val), None, None,
                                 Some(f.val)))
    ELSE LET t == opt_table_qualifier(s, i)
             c == named("sql_identifier", s, t.pos)
         IN  IF c.st # "Done" THEN Failed ELSE
             LET alias == named("as_alias", s, c.pos) IN
             IF alias.st = "Done"
             THEN Done(alias.pos, Column(c.val, Some(alias.val), t.val, None))
             ELSE Done(c.pos, Column(c.val, None, t.val, None))

-----------------------------------------------------------------------------
(* Integer conversion.  An integer value is kept as its decimal digits
   without leading zeros, so that values of any width compare exactly. *)

(* the value of a digit run: its digits without leading zeros *)
RECURSIVE Canonical(_)
Canonical(ds) ==
    IF Len(ds) > 1 /\ ds[1] = "0" THEN Canonical(Tail(ds)) ELSE ds

DigitValue ==
    ("0" :> 0) @@ ("1" :> 1) @@ ("2" :> 2) @@ ("3" :> 3) @@ ("4" :> 4) @@
    ("5" :> 5) @@ ("6" :> 6) @@ ("7" :> 7) @@ ("8" :> 8) @@ ("9" :> 9)

(* a <= b for canonical digit sequences of the same length *)
RECURSIVE LeqSameLen(_, _)
LeqSameLen(a, b) ==
    IF Len(a) = 0 THEN TRUE
    ELSE IF DigitValue[a[1]] < DigitValue[b[1]] THEN TRUE
    ELSE IF DigitValue[a[1]] > DigitValue[b[1]] THEN FALSE
    ELSE LeqSameLen(Tail(a), Tail(b))

(* a <= b for canonical digit sequences *)
Leq(a, b) ==
    Len(a) < Len(b) \/ (Len(a) = Len(b) /\ LeqSameLen(a, b))

u16_MAX == B("65535")
i32_MAX == B("2147483647")
i64_MAX == B("9223372036854775807")

(* T::from_str(ds).is_ok() for a run of ASCII digits ds: the value fits *)
from_str_ok(ds, max) == Leq(Canonical(ds), max)

-----------------------------------------------------------------------------
(* Key specifications (create.rs) *)

(* order_type (order.rs is not part of the sources at hand): the sort order
   written after an index column *)
order_type(s, i) ==
    IF tag_no_case(B("desc"), s, i).st = "Done"
    THEN Done(i + 4, "OrderDescending")
    ELSE IF tag_no_case(B("asc"), s, i).st = "Done"
    THEN Done(i + 3, "OrderAscending")
    ELSE Failed

(* opt!(delimited!(tag!("("), digit, tag!(")"))) *)
opt_paren_digits(s, i) ==
    IF tag(<<"(">>, s, i).st # "Done" THEN Done(i, None) ELSE
    LET d == digit(s, i + 1) IN
    IF d.st # "Done" THEN Done(i, None) ELSE
    IF tag(<<")">>, s, d.pos).st # "Done" THEN Done(i, None) ELSE
    Done(d.pos + 1, Some(d.val))

(* MySQL grammar element for index column definition *)
index_col_name(s, i) ==
    LET c == named("column_identifier_no_alias", s, i) IN
    IF c.st # "Done" THEN Failed ELSE
    LET len == opt_paren_digits(s, opt_multispace(s, c.pos).pos)
        order == order_type(s, len.pos)
    IN
    \* u16::from_str(..).unwrap()
    IF IsSome(len.val) /\ ~from_str_ok(Unwrap(len.val), u16_MAX) THEN Panic
    ELSE Done(IF order.st = "Done" THEN order.pos ELSE len.pos,
              [column |-> c.val,
               len |-> IF IsSome(len.val)
                       THEN Some(Canonical(Unwrap(len.val))) ELSE None,
               order |-> IF order.st = "Done" THEN Some(order.val) ELSE None])

(* Helper for list of index columns: many0! of an index column followed by
   an optional comma; length and order are dropped *)
RECURSIVE index_col_list_from(_, _, _)
index_col_list_from(s, i, acc) ==
    LET r == named("index_col_name", s, i)
    IN  IF r.st = "Panic" THEN Panic
        ELSE IF r.st # "Done" THEN Done(i, acc)
        ELSE index_col_list_from(s, opt_comma(s, r.pos),
                                 Append(acc, r.val.column))

index_col_list(s, i) == index_col_list_from(s, i, <<>>)

(* delimited!(tag!("("), delimited!(opt_multispace, index_col_list,
   opt_multispace), tag!(")")) *)
key_columns(s, i) ==
    IF tag(<<"(">>, s, i).st # "Done" THEN Failed ELSE
    LET l == named("index_col_list", s, opt_multispace(s, i + 1).pos) IN
    IF l.st # "Done" THEN l ELSE
    LET e == opt_multispace(s, l.pos).pos IN
    IF tag(<<")">>, s, e).st # "Done" THEN Failed
    ELSE Done(e + 1, l.val)

(* TableKey::{PrimaryKey, UniqueKey, FulltextKey, Key}; name is None for a
   primary key and always Some for a plain key *)
TableKey(kind, name, columns) ==
    [kind |-> kind, name |-> name, columns |-> columns]

(* alt!(tag_no_case!("key") | tag_no_case!("index")) *)
key_or_index(s, i) ==
    IF tag_no_case(B("key"), s, i).st = "Done"
    THEN tag_no_case(B("key"), s, i)
    ELSE tag_no_case(B("index"), s, i)

(* opt_multispace >> name: opt!(sql_identifier) >> opt_multispace >>
   columns, as the FULLTEXT and UNIQUE alternatives end *)
named_key_tail(kind, s, i) ==
    LET n == named("sql_identifier", s, opt_multispace(s, i).pos)
        p == IF n.st = "Done" THEN n.pos ELSE opt_multispace(s, i).pos
        cols == named("key_columns", s, opt_multispace(s, p).pos)
    IN  IF cols.st # "Done" THEN cols
        ELSE Done(cols.pos,
                  TableKey(kind, IF n.st = "Done" THEN Some(n.val) ELSE None,
                           cols.val))

fulltext_key(s, i) ==
    LET r1 == tag_no_case(B("fulltext"), s, i) IN
    IF r1.st # "Done" THEN Failed ELSE
    LET r2 == multispace(s, r1.pos) IN
    IF r2.st # "Done" THEN Failed ELSE
    LET r3 == key_or_index(s, r2.pos) IN
    IF r3.st # "Done" THEN Failed ELSE
    named_key_tail("FulltextKey", s, r3.pos)

primary_key(s, i) ==
    LET r1 == tag_no_case(B("primary key"), s, i) IN
    IF r1.st # "Done" THEN Failed ELSE
    LET cols == named("key_columns", s, opt_multispace(s, r1.pos).pos) IN
    IF cols.st # "Done" THEN cols ELSE
    LET ws == multispace(s, cols.pos)
        ai == IF ws.st = "Done"
              THEN tag_no_case(B("autoincrement"), s, ws.pos) ELSE Failed
    IN  Done(IF ai.st = "Done" THEN ai.pos ELSE cols.pos,
             TableKey("PrimaryKey", None, cols.val))

unique_key(s, i) ==
    LET r1 == tag_no_case(B("unique"), s, i) IN
    IF r1.st # "Done" THEN Failed ELSE
    LET ws == multispace(s, r1.pos)
        ki == IF ws.st = "Done" THEN key_or_index(s, ws.pos) ELSE Failed
    IN  named_key_tail("UniqueKey", s,
                       IF ki.st = "Done" THEN ki.pos ELSE r1.pos)

plain_key(s, i) ==
    LET r1 == key_or_index(s, i) IN
    IF r1.st # "Done" THEN Failed ELSE
    LET n == named("sql_identifier", s, opt_multispace(s, r1.pos).pos) IN
    IF n.st # "Done" THEN Failed ELSE
    LET cols == named("key_columns", s, opt_multispace(s, n.pos).pos) IN
    IF cols.st # "Done" THEN cols
    ELSE Done(cols.pos, TableKey("Key", Some(n.val), cols.val))

(* Parse rule for an individual key specification. *)
key_specification(s, i) ==
    IF named("fulltext_key", s, i).st # "Failed" THEN named("fulltext_key", s, i)
    ELSE IF named("primary_key", s, i).st # "Failed" THEN named("primary_key", s, i)
    ELSE IF named("unique_key", s, i).st # "Failed" THEN named("unique_key", s, i)
    ELSE named("plain_key", s, i)

(* Parse rule for a comma-separated list: many1! of a key specification
   followed by an optional comma *)
RECURSIVE key_specification_list_from(_, _, _)
key_specification_list_from(s, i, acc) ==
    LET r == named("key_specification", s, i)
    IN  IF r.st = "Panic" THEN Panic
        ELSE IF r.st # "Done"
        THEN (IF Len(acc) = 0 THEN Failed ELSE Done(i, acc))
        ELSE key_specification_list_from(s, opt_comma(s, r.pos),
                                         Append(acc, r.val))

key_specification_list(s, i) == key_specification_list_from(s, i, <<>>)

-----------------------------------------------------------------------------
(* Field specifications (create.rs) *)

(* SqlType: the variant and its width (None for a type without one) *)
SqlType(name, len) == [name |-> name, len |-> len]
SqlTypeText == SqlType("Text", None)

(* tag_no_case!(word) and a width in parentheses; dflt is the width of the
   type written without one (None when the width is required) *)
sized_type(word, name, dflt, s, i) ==
    LET r1 == tag_no_case(B(word), s, i) IN
    IF r1.st # "Done" THEN Failed ELSE
    LET len == opt_paren_digits(s, r1.pos) IN
    IF IsSome(len.val)
    THEN (IF from_str_ok(Unwrap(len.val), u16_MAX)
          THEN Done(len.pos, SqlType(name, Some(Canonical(Unwrap(len.val)))))
          ELSE Failed)
    ELSE IF IsSome(dflt) THEN Done(len.pos, SqlType(name, dflt))
    ELSE Failed

(* type_identifier (its source is not part of the sources at hand): the
   integer, character and text types of the data model; INTEGER and INT
   without a width are Int(32), VARCHAR needs a width *)
type_identifier(s, i) ==
    LET big == sized_type("bigint", "Bigint", Some(B("64")), s, i)
        integer == sized_type("integer", "Int", Some(B("32")), s, i)
        int == sized_type("int", "Int", Some(B("32")), s, i)
        vc == sized_type("varchar", "Varchar", None, s, i)
    IN  IF big.st = "Done" THEN big
        ELSE IF integer.st = "Done" THEN integer
        ELSE IF int.st = "Done" THEN int
        ELSE IF vc.st = "Done" THEN vc
        ELSE IF tag_no_case(B("text"), s, i).st = "Done"
        THEN Done(i + 4, SqlTypeText)
        ELSE Failed

(* delimited!(tag!("'"), take_until!("'"), tag!("'")) *)
quoted_string(s, i) ==
    IF tag(<<"'">>, s, i).st # "Done" THEN Failed ELSE
    LET r == take_until_quote(s, i + 1, i + 1) IN
    IF r.st # "Done" THEN Failed ELSE Done(r.pos + 1, r.val)

(* parse_comment (its source is not part of the sources at hand): COMMENT
   and a quoted free text, decoded as UTF-8 *)
parse_comment(s, i) ==
    LET r1 == tag_no_case(B("comment"), s, opt_multispace(s, i).pos) IN
    IF r1.st # "Done" THEN Failed ELSE
    LET r2 == multispace(s, r1.pos) IN
    IF r2.st # "Done" THEN Failed ELSE
    LET r3 == quoted_string(s, r2.pos) IN
    IF r3.st # "Done" \/ ~valid_utf8(r3.val) THEN Failed ELSE r3

(* Literal: String(a), Integer(a), FixedPoint(Real {integral: a,
   fractional: b}), Null, CurrentTimestamp *)
Literal(kind, a, b) == [kind |-> kind, a |-> a, b |-> b]

(* ColumnConstraint: NotNull, AutoIncrement, DefaultValue(Literal),
   PrimaryKey, Unique, CharacterSet(String), Collation(String) *)
ColumnConstraint(kind, arg) == [kind |-> kind, arg |-> arg]

(* the literal after DEFAULT *)
default_literal(s, i) ==
    LET str == quoted_string(s, i)
        d == digit(s, i)
        f == IF d.st = "Done" /\ tag(<<".">>, s, d.pos).st = "Done"
             THEN digit(s, d.pos + 1) ELSE Failed
    IN
    IF str.st = "Done"
    THEN \* String::from_utf8(s.to_vec()).unwrap()
         (IF valid_utf8(str.val)
          THEN Done(str.pos, Literal("String", str.val, <<>>))
          ELSE Panic)
    ELSE IF f.st = "Done"
    THEN \* i32::from_str(..).unwrap(), for the integral and the fractional
         (IF from_str_ok(d.val, i32_MAX) /\ from_str_ok(f.val, i32_MAX)
          THEN Done(f.pos, Literal("FixedPoint", Canonical(d.val),
                                   Canonical(f.val)))
          ELSE Panic)
    ELSE IF d.st = "Done"
    THEN \* i64::from_str(..).unwrap()
         (IF from_str_ok(d.val, i64_MAX)
          THEN Done(d.pos, Literal("Integer", Canonical(d.val), <<>>))
          ELSE Panic)
    ELSE IF tag(B("''"), s, i).st = "Done"
    THEN Done(i + 2, Literal("String", <<>>, <<>>))
    ELSE IF tag_no_case(B("null"), s, i).st = "Done"
    THEN Done(i + 4, Literal("Null", <<>>, <<>>))
    ELSE IF tag_no_case(B("current_timestamp"), s, i).st = "Done"
    THEN Done(i + 17, Literal("CurrentTimestamp", <<>>, <<>>))
    ELSE Failed

(* opt_multispace >> tag_no_case!(word) >> opt_multispace >> (value) *)
flag_constraint(word, value, s, i) ==
    LET r == tag_no_case(B(word), s, opt_multispace(s, i).pos)
    IN  IF r.st # "Done" THEN Failed
        ELSE Done(opt_multispace(s, r.pos).pos, value)

(* opt_multispace >> tag_no_case!("default") >> multispace >> def >>
   opt_multispace *)
default_constraint(s, i) ==
    LET r1 == tag_no_case(B("default"), s, opt_multispace(s, i).pos) IN
    IF r1.st # "Done" THEN Failed ELSE
    LET r2 == multispace(s, r1.pos) IN
    IF r2.st # "Done" THEN Failed ELSE
    LET def == named("default_literal", s, r2.pos) IN
    IF def.st # "Done" THEN def
    ELSE Done(opt_multispace(s, def.pos).pos,
              Some(ColumnConstraint("DefaultValue", def.val)))

(* opt_multispace >> tag_no_case!(word) >> multispace >> sql_identifier *)
named_constraint(word, kind, s, i) ==
    LET r1 == tag_no_case(B(word), s, opt_multispace(s, i).pos) IN
    IF r1.st # "Done" THEN Failed ELSE
    LET r2 == multispace(s, r1.pos) IN
    IF r2.st # "Done" THEN Failed ELSE
    LET r3 == named("sql_identifier", s, r2.pos) IN
    IF r3.st # "Done" THEN Failed
    ELSE Done(r3.pos, Some(ColumnConstraint(kind, r3.val)))

column_constraint_null_kept(s, i) ==
    LET nn == flag_constraint("not null",
                  Some(ColumnConstraint("NotNull", <<>>)), s, i)
        nl == flag_constraint("null",
                  Some(ColumnConstraint("Null", <<>>)), s, i)
        ai == flag_constraint("auto_increment",
                  Some(ColumnConstraint("AutoIncrement", <<>>)), s, i)
        df == named("default_constraint", s, i)
        pk == flag_constraint("primary key",
                  Some(ColumnConstraint("PrimaryKey", <<>>)), s, i)
        un == flag_constraint("unique",
                  Some(ColumnConstraint("Unique", <<>>)), s, i)
        cs == named_constraint("character set", "CharacterSet", s, i)
    IN  IF nn.st = "Done" THEN nn
        ELSE IF nl.st = "Done" THEN nl
        ELSE IF ai.st = "Done" THEN ai
        ELSE IF df.st # "Failed" THEN df
        ELSE IF pk.st = "Done" THEN pk
        ELSE IF un.st = "Done" THEN un
        ELSE IF cs.st = "Done" THEN cs
        ELSE named_constraint("collate", "Collation", s, i)

(* Parse rule for a column definition contraint: Option<ColumnConstraint>,
   None for a bare NULL *)
column_constraint(s, i) ==
    LET nn == flag_constraint("not null",
                  Some(ColumnConstraint("NotNull", <<>>)), s, i)
        nl == flag_constraint("null", None, s, i)
        ai == flag_constraint("auto_increment",
                  Some(ColumnConstraint("AutoIncrement", <<>>)), s, i)
        df == named("default_constraint", s, i)
        pk == flag_constraint("primary key",
                  Some(ColumnConstraint("PrimaryKey", <<>>)), s, i)
        un == flag_constraint("unique",
                  Some(ColumnConstraint("Unique", <<>>)), s, i)
        cs == named_constraint("character set", "CharacterSet", s, i)
    IN  IF nn.st = "Done" THEN nn
        ELSE IF nl.st = "Done" THEN nl
        ELSE IF ai.st = "Done" THEN ai
        ELSE IF df.st # "Failed" THEN df
        ELSE IF pk.st = "Done" THEN pk
        ELSE IF un.st = "Done" THEN un
        ELSE IF cs.st = "Done" THEN cs
        ELSE named_constraint("collate", "Collation", s, i)

RECURSIVE constraints_from_last_first(_, _, _)
constraints_from_last_first(s, i, acc) ==
    LET r == named("column_constraint", s, i)
    IN  IF r.st = "Panic" THEN Panic
        ELSE IF r.st # "Done" THEN Done(i, acc)
        ELSE constraints_from_last_first(s, r.pos,
                 IF IsSome(r.val) THEN <<Unwrap(r.val)>> \o acc ELSE acc)

(* many0!(column_constraint), with the None entries filtered out *)
RECURSIVE constraints_from(_, _, _)
constraints_from(s, i, acc) ==
    LET r == named("column_constraint", s, i)
    IN  IF r.st = "Panic" THEN Panic
        ELSE IF r.st # "Done" THEN Done(i, acc)
        ELSE constraints_from(s, r.pos,
                 IF IsSome(r.val) THEN Append(acc, Unwrap(r.val)) ELSE acc)

(* ColumnSpecification { column, sql_type, constraints, comment } *)
ColumnSpecification(column, sql_type, constraints, comment) ==
    [column |-> column, sql_type |-> sql_type, constraints |-> constraints,
     comment |-> comment]

(* opt!(do_parse!(multispace >> ti: type_identifier >> opt_multispace)) *)
opt_fieldtype(s, i) ==
    LET ws == multispace(s, i)
        ti == IF ws.st = "Done" THEN named("type_identifier", s, ws.pos) ELSE Failed
    IN  IF ti.st = "Done"
        THEN Done(opt_multispace(s, ti.pos).pos, Some(ti.val))
        ELSE Done(i, None)

(* the type of a field: the one written, otherwise the default *)
field_sql_type_int_default(fieldtype) ==
    IF IsSome(fieldtype) THEN Unwrap(fieldtype)
    ELSE SqlType("Int", Some(B("32")))

field_sql_type(fieldtype) ==
    IF IsSome(fieldtype) THEN Unwrap(fieldtype) ELSE SqlTypeText

(* one entry of field_specification_list *)
field_specification(s, i) ==
    LET id == named("column_identifier_no_alias", s, i) IN
    IF id.st # "Done" THEN Failed ELSE
    LET ft == opt_fieldtype(s, id.pos)
        cons == constraints_from(s, ft.pos, <<>>)
    IN
    IF cons.st # "Done" THEN cons ELSE
    LET cm == named("parse_comment", s, cons.pos)
        p == IF cm.st = "Done" THEN cm.pos ELSE cons.pos
    IN  Done(opt_comma(s, p),
             ColumnSpecification(id.val, field_sql_type(ft.val), cons.val,
                 IF cm.st = "Done" THEN Some(cm.val) ELSE None))

(* Parse rule for a comma-separated list: many1! of a field specification *)
RECURSIVE field_specification_list_from(_, _, _)
field_specification_list_from(s, i, acc) ==
    LET r == named("field_specification", s, i)
    IN  IF r.st = "Panic" THEN Panic
        ELSE IF r.st # "Done"
        THEN (IF Len(acc) = 0 THEN Failed ELSE Done(i, acc))
        ELSE field_specification_list_from(s, r.pos, Append(acc, r.val))

field_specification_list(s, i) == field_specification_list_from(s, i, <<>>)

-----------------------------------------------------------------------------
(* Foreign keys (create.rs, foreignkey.rs) *)

(* Parse rule for a comma-separated list: many1! of opt_multispace,
   sql_identifier, opt_multispace and an optional comma *)
RECURSIVE field_fk_specification_list_from(_, _, _)
field_fk_specification_list_from(s, i, acc) ==
    LET r == named("sql_identifier", s, opt_multispace(s, i).pos)
    IN  IF r.st # "Done"
        THEN (IF Len(acc) = 0 THEN Failed ELSE Done(i, acc))
        ELSE field_fk_specification_list_from(s,
                 opt_comma(s, opt_multispace(s, r.pos).pos),
                 Append(acc, Column(r.val, None, None, None)))

field_fk_specification_list(s, i) ==
    field_fk_specification_list_from(s, i, <<>>)

foreign_key_ref_action_upper_case(s, i) ==
    LET r1 == tag_no_case(B("ON"), s, opt_multispace(s, i).pos) IN
    IF r1.st # "Done" THEN Failed ELSE
    LET r2 == multispace(s, r1.pos) IN
    IF r2.st # "Done" THEN Failed ELSE
    LET r3 == IF tag_no_case(B("DELETE"), s, r2.pos).st = "Done"
              THEN Done(r2.pos + 6, B("DELETE"))
              ELSE IF tag_no_case(B("UPDATE"), s, r2.pos).st = "Done"
              THEN Done(r2.pos + 6, B("UPDATE"))
              ELSE Failed
    IN
    IF r3.st # "Done" THEN Failed ELSE
    LET r4 == multispace(s, r3.pos) IN
    IF r4.st # "Done" THEN Failed ELSE
    LET r5 == tag_no_case(B("RESTRICT"), s, r4.pos) IN
    IF r5.st # "Done" THEN Failed ELSE Done(r5.pos, r3.val)

(* one ON {DELETE|UPDATE} RESTRICT clause: the action word as written *)
foreign_key_ref_action(s, i) ==
    LET r1 == tag_no_case(B("ON"), s, opt_multispace(s, i).pos) IN
    IF r1.st # "Done" THEN Failed ELSE
    LET r2 == multispace(s, r1.pos) IN
    IF r2.st # "Done" THEN Failed ELSE
    LET r3 == IF tag_no_case(B("DELETE"), s, r2.pos).st = "Done"
              THEN tag_no_case(B("DELETE"), s, r2.pos)
              ELSE tag_no_case(B("UPDATE"), s, r2.pos)
    IN
    IF r3.st # "Done" THEN Failed ELSE
    LET r4 == multispace(s, r3.pos) IN
    IF r4.st # "Done" THEN Failed ELSE
    LET r5 == tag_no_case(B("RESTRICT"), s, r4.pos) IN
    IF r5.st # "Done" THEN Failed ELSE Done(r5.pos, r3.val)

RECURSIVE foreign_key_ref_action_list_from(_, _, _)
foreign_key_ref_action_list_from(s, i, acc) ==
    LET r == named("foreign_key_ref_action", s, i)
    IN  IF r.st # "Done"
        THEN (IF Len(acc) = 0 THEN Failed ELSE Done(i, acc))
        ELSE foreign_key_ref_action_list_from(s, r.pos, Append(acc, r.val))

foreign_key_ref_action_list(s, i) ==
    foreign_key_ref_action_list_from(s, i, <<>>)

(* ForeignKeySpecification { name, ref_action, from, that_table, to } *)
ForeignKeySpecification(name, ref_action, from, that_table, to) ==
    [name |-> name, ref_action |-> ref_action, from |-> from,
     that_table |-> that_table, to |-> to]

(* opt!(do_parse!(opt_multispace >> tag_no_case!("CONSTRAINT") >>
   opt_multispace >> name: sql_identifier)) *)
opt_constraint_name(s, i) ==
    LET r1 == tag_no_case(B("CONSTRAINT"), s, opt_multispace(s, i).pos)
        r2 == IF r1.st = "Done"
              THEN named("sql_identifier", s, opt_multispace(s, r1.pos).pos)
              ELSE Failed
    IN  IF r2.st = "Done" THEN Done(r2.pos, Some(r2.val)) ELSE Done(i, None)

(* tag!("(") >> field_fk_specification_list >> tag!(")") *)
fk_columns(s, i) ==
    IF tag(<<"(">>, s, i).st # "Done" THEN Failed ELSE
    LET l == named("field_fk_specification_list", s, i + 1) IN
    IF l.st # "Done" THEN Failed ELSE
    IF tag(<<")">>, s, l.pos).st # "Done" THEN Failed
    ELSE Done(l.pos + 1, l.val)

(* one entry of foreign_key_specification_list *)
foreign_key_specification(s, i) ==
    LET name == opt_constraint_name(s, i)
        r1 == tag_no_case(B("foreign"), s, opt_multispace(s, name.pos).pos)
    IN
    IF r1.st # "Done" THEN Failed ELSE
    LET r2 == multispace(s, r1.pos) IN
    IF r2.st # "Done" THEN Failed ELSE
    LET r3 == tag_no_case(B("key"), s, r2.pos) IN
    IF r3.st # "Done" THEN Failed ELSE
    LET from == named("fk_columns", s, opt_multispace(s, r3.pos).pos) IN
    IF from.st # "Done" THEN Failed ELSE
    LET r4 == tag_no_case(B("REFERENCES"), s,
                          opt_multispace(s, from.pos).pos)
    IN
    IF r4.st # "Done" THEN Failed ELSE
    LET r5 == multispace(s, r4.pos) IN
    IF r5.st # "Done" THEN Failed ELSE
    LET that == named("table_reference", s, r5.pos) IN
    IF that.st # "Done" THEN Failed ELSE
    LET to == named("fk_columns", s, opt_multispace(s, that.pos).pos) IN
    IF to.st # "Done" THEN Failed ELSE
    LET act == named("foreign_key_ref_action_list", s, to.pos)
        p == IF act.st = "Done" THEN act.pos ELSE to.pos
    IN  Done(opt_comma(s, opt_multispace(s, p).pos),
             ForeignKeySpecification(
                 name.val,
                 IF act.st = "Done"
                 THEN Some(Join([k \in 1..Len(act.val) |->
                                    B("ON ") \o act.val[k] \o B(" RESTRICT")],
                                B(" ")))
                 ELSE None,
                 from.val, that.val, to.val))

(* Parse rule for CONSTRAINT FOREIGN KEY list. *)
RECURSIVE foreign_key_specification_list_from(_, _, _)
foreign_key_specification_list_from(s, i, acc) ==
    LET r == named("foreign_key_specification", s, i)
    IN  IF r.st # "Done"
        THEN (IF Len(acc) = 0 THEN Failed ELSE Done(i, acc))
        ELSE foreign_key_specification_list_from(s, r.pos,
                                                 Append(acc, r.val))

foreign_key_specification_list(s, i) ==
    foreign_key_specification_list_from(s, i, <<>>)

-----------------------------------------------------------------------------
(* CREATE TABLE (create.rs) *)

(* one table option, NAME=VALUE with a possibly empty value *)
create_option(s, i) ==
    LET n == take_while1("ident", s, i) IN
    IF n.st # "Done" THEN Failed ELSE
    IF tag(<<"=">>, s, n.pos).st # "Done" THEN Failed
    ELSE Done(RunEnd("ident", s, n.pos + 1), <<>>)

(* table_options (create_table_options.rs is not part of the sources at
   hand): consumes, and discards, a separated list of table options; it
   never fails *)
RECURSIVE table_options_from(_, _)
table_options_from(s, i) ==
    LET sep == opt_comma(s, opt_multispace(s, i).pos)
        nxt == create_option(s, sep)
    IN  IF nxt.st = "Done" /\ sep > i THEN table_options_from(s, nxt.pos)
        ELSE Done(i, <<>>)

table_options(s, i) ==
    LET first == create_option(s, i)
    IN  IF first.st = "Done" THEN table_options_from(s, first.pos)
        ELSE Done(i, <<>>)

(* statement_terminator, accepting whatever follows *)
statement_terminator_optional(s, i) ==
    LET p == opt_multispace(s, i).pos
        t == IF tag(<<";">>, s, p).st = "Done" THEN tag(<<";">>, s, p)
             ELSE IF line_ending(s, p).st = "Done" THEN line_ending(s, p)
             ELSE eof(s, p)
    IN  IF t.st # "Done" THEN Done(i, <<>>)
        ELSE Done(opt_multispace(s, t.pos).pos, t.val)

statement_terminator_no_trailing_space(s, i) ==
    LET p == opt_multispace(s, i).pos
        t == IF tag(<<";">>, s, p).st = "Done" THEN tag(<<";">>, s, p)
             ELSE IF line_ending(s, p).st = "Done" THEN line_ending(s, p)
             ELSE eof(s, p)
    IN  IF t.st # "Done" THEN Failed
        ELSE Done(t.pos, t.val)

(* Parse a terminator that ends a SQL statement. *)
statement_terminator(s, i) ==
    LET p == opt_multispace(s, i).pos
        t == IF tag(<<";">>, s, p).st = "Done" THEN tag(<<";">>, s, p)
             ELSE IF line_ending(s, p).st = "Done" THEN line_ending(s, p)
             ELSE eof(s, p)
    IN  IF t.st # "Done" THEN Failed
        ELSE Done(opt_multispace(s, t.pos).pos, t.val)

(* CreateTableStatement { table, fields, keys, fkeys } *)
CreateTableStatement(table, fields, keys, fkeys) ==
    [table |-> table, fields |-> fields, keys |-> keys, fkeys |-> fkeys]

(* the name attachment, keeping a qualifier the column carries *)
attach_name_unless_qualified(column, name) ==
    Column(column.name, column.alias,
           IF IsSome(column.table) THEN column.table ELSE Some(name),
           column.function)

(* Column { table: Some(table.name.clone()), ..column } *)
attach_name(column, name) ==
    Column(column.name, column.alias, Some(name), column.function)

(* attach table names to columns *)
named_fields(fields, name) ==
    [k \in 1..Len(fields) |->
        ColumnSpecification(attach_name(fields[k].column, name),
                            fields[k].sql_type, fields[k].constraints,
                            fields[k].comment)]

(* the closure attach_names *)
attach_names(columns, name) ==
    [k \in 1..Len(columns) |-> attach_name(columns[k], name)]

named_keys_without_name(keys, name) ==
    IF IsSome(keys)
    THEN Some([k \in 1..Len(Unwrap(keys)) |->
                 TableKey(Unwrap(keys)[k].kind, None,
                          attach_names(Unwrap(keys)[k].columns, name))])
    ELSE None

(* and to keys *)
named_keys(keys, name) ==
    IF IsSome(keys)
    THEN Some([k \in 1..Len(Unwrap(keys)) |->
                 TableKey(Unwrap(keys)[k].kind, Unwrap(keys)[k].name,
                          attach_names(Unwrap(keys)[k].columns, name))])
    ELSE None

(* opt!(p) of a list parser result r at index i *)
OptList_some_empty(r, i) ==
    IF r.st = "Done" THEN Done(r.pos, Some(r.val))
    ELSE IF r.st = "Panic" THEN Panic
    ELSE Done(i, Some(<<>>))

(* opt!(list): None, never Some of an empty list, when the list is absent *)
OptList(r, i) ==
    IF r.st = "Done" THEN Done(r.pos, Some(r.val))
    ELSE IF r.st = "Panic" THEN Panic
    ELSE Done(i, None)

(* the clause lists of creation as its sub-parsers return them: fields,
   opt!(key_specification_list), opt!(foreign_key_specification_list) *)
clause_lists(s, i) ==
    LET fields == named("field_specification_list", s, i) IN
    IF fields.st # "Done" THEN fields ELSE
    LET p1 == opt_multispace(s, fields.pos).pos
        keys == OptList(named("key_specification_list", s, p1), p1)
    IN
    IF keys.st # "Done" THEN keys ELSE
    LET p2 == opt_multispace(s, keys.pos).pos
        fkeys == OptList(named("foreign_key_specification_list", s, p2), p2)
    IN  Done(fkeys.pos,
             [fields |-> fields.val, keys |-> keys.val, fkeys |-> fkeys.val])

(* Parse rule for a SQL CREATE TABLE query. *)
creation(s, i) ==
    LET r1 == tag_no_case(B("create"), s, i) IN
    IF r1.st # "Done" THEN Failed ELSE
    LET r2 == multispace(s, r1.pos) IN
    IF r2.st # "Done" THEN Failed ELSE
    LET r3 == tag_no_case(B("table"), s, r2.pos) IN
    IF r3.st # "Done" THEN Failed ELSE
    LET r4 == multispace(s, r3.pos) IN
    IF r4.st # "Done" THEN Failed ELSE
    LET table == named("table_reference", s, r4.pos) IN
    IF table.st # "Done" THEN Failed ELSE
    LET r5 == tag(<<"(">>, s, opt_multispace(s, table.pos).pos) IN
    IF r5.st # "Done" THEN Failed ELSE
    LET fields == named("field_specification_list", s, opt_multispace(s, r5.pos).pos)
    IN
    IF fields.st # "Done" THEN fields ELSE
    LET p1 == opt_multispace(s, fields.pos).pos
        keys == OptList(named("key_specification_list", s, p1), p1)
    IN
    IF keys.st # "Done" THEN keys ELSE
    LET p2 == opt_multispace(s, keys.pos).pos
        fkeys == OptList(named("foreign_key_specification_list", s, p2), p2)
        r6 == tag(<<")">>, s, opt_multispace(s, fkeys.pos).pos)
    IN
    IF r6.st # "Done" THEN Failed ELSE
    LET opts == named("table_options", s, opt_multispace(s, r6.pos).pos)
        term == named("statement_terminator", s, opts.pos)
    IN
    IF term.st # "Done" THEN Failed ELSE
    \* "table AS alias" isn't legal in CREATE statements:
    \* assert!(table.alias.is_none())
    IF IsSome(table.val.alias) THEN Panic ELSE
    Done(term.pos,
         CreateTableStatement(table.val,
                              named_fields(fields.val, table.val.name),
                              named_keys(keys.val, table.val.name),
                              fkeys.val))

-----------------------------------------------------------------------------
(* CREATE VIEW (create.rs) and the select grammars it delegates to *)

(* SelectStatement { tables, fields, .. } *)
SelectStatement(tables, fields) == [tables |-> tables, fields |-> fields]

(* nested_selection (its source is not part of the sources at hand): a
   SELECT without its terminator, here SELECT <fields> FROM <table> *)
nested_selection(s, i) ==
    LET r1 == tag_no_case(B("select"), s, i) IN
    IF r1.st # "Done" THEN Failed ELSE
    LET r2 == multispace(s, r1.pos) IN
    IF r2.st # "Done" THEN Failed ELSE
    LET fields == named("field_expr", s, r2.pos)
        r3 == multispace(s, fields.pos)
    IN
    IF r3.st # "Done" THEN Failed ELSE
    LET r4 == tag_no_case(B("from"), s, r3.pos) IN
    IF r4.st # "Done" THEN Failed ELSE
    LET r5 == multispace(s, r4.pos) IN
    IF r5.st # "Done" THEN Failed ELSE
    LET table == named("table_reference", s, r5.pos) IN
    IF table.st # "Done" THEN Failed
    ELSE Done(table.pos, SelectStatement(<<table.val>>, fields.val))

(* one more select of a compound selection: a set operator, then a SELECT *)
compound_operand(s, i) ==
    LET r1 == tag_no_case(B("union"), s, opt_multispace(s, i).pos) IN
    IF r1.st # "Done" THEN Failed ELSE
    LET r2 == multispace(s, r1.pos) IN
    IF r2.st # "Done" THEN Failed
    ELSE named("nested_selection", s, r2.pos)

RECURSIVE compound_operands_from(_, _, _)
compound_operands_from(s, i, acc) ==
    LET r == named("compound_operand", s, i)
    IN  IF r.st # "Done" THEN Done(i, acc)
        ELSE compound_operands_from(s, r.pos, Append(acc, r.val))

(* compound_selection (its source is not part of the sources at hand): a
   SELECT followed by one or more set operators, each with its SELECT *)
compound_selection(s, i) ==
    LET first == named("nested_selection", s, i) IN
    IF first.st # "Done" THEN Failed ELSE
    LET others == compound_operands_from(s, first.pos, <<>>) IN
    IF Len(others.val) = 0 THEN Failed
    ELSE Done(others.pos, <<first.val>> \o others.val)

(* SelectSpecification::{Compound, Simple} *)
SelectSpecification(kind, select) == [kind |-> kind, select |-> select]

(* the alternatives with the simple select tried before the compound one *)
view_definition_simple_first(s, i) ==
    LET simple == named("nested_selection", s, i)
        compound == named("compound_selection", s, i)
    IN  IF simple.st = "Done"
        THEN Done(simple.pos, SelectSpecification("Simple", simple.val))
        ELSE IF compound.st = "Done"
        THEN Done(compound.pos, SelectSpecification("Compound", compound.val))
        ELSE Failed

(* alt!(map!(compound_selection, Compound) | map!(nested_selection, Simple)) *)
view_definition(s, i) ==
    LET compound == named("compound_selection", s, i)
        simple == named("nested_selection", s, i)
    IN  IF compound.st = "Done"
        THEN Done(compound.pos, SelectSpecification("Compound", compound.val))
        ELSE IF simple.st = "Done"
        THEN Done(simple.pos, SelectSpecification("Simple", simple.val))
        ELSE Failed

(* CreateViewStatement { name, fields, definition } *)
CreateViewStatement(name, fields, definition) ==
    [name |-> name, fields |-> fields, definition |-> definition]

(* Parse rule for a SQL CREATE VIEW query. *)
view_creation(s, i) ==
    LET r1 == tag_no_case(B("create"), s, i) IN
    IF r1.st # "Done" THEN Failed ELSE
    LET r2 == multispace(s, r1.pos) IN
    IF r2.st # "Done" THEN Failed ELSE
    LET r3 == tag_no_case(B("view"), s, r2.pos) IN
    IF r3.st # "Done" THEN Failed ELSE
    LET r4 == multispace(s, r3.pos) IN
    IF r4.st # "Done" THEN Failed ELSE
    LET name == named("sql_identifier", s, r4.pos) IN
    IF name.st # "Done" THEN Failed ELSE
    LET r5 == multispace(s, name.pos) IN
    IF r5.st # "Done" THEN Failed ELSE
    LET r6 == tag_no_case(B("as"), s, r5.pos) IN
    IF r6.st # "Done" THEN Failed ELSE
    LET r7 == multispace(s, r6.pos) IN
    IF r7.st # "Done" THEN Failed ELSE
    LET definition == named("view_definition", s, r7.pos) IN
    IF definition.st # "Done" THEN Failed ELSE
    LET term == named("statement_terminator", s, definition.pos) IN
    IF term.st # "Done" THEN Failed
    ELSE Done(term.pos, CreateViewStatement(name.val, <<>>, definition.val))

(* the grammar rule of a given name, applied to buffer s at index i *)
named(rule, s, i) ==
    CASE rule = "sql_keyword" -> sql_keyword(s, i)
      [] rule = "sql_identifier" -> sql_identifier(s, i)
      [] rule = "as_alias" -> as_alias(s, i)
      [] rule = "table_reference" -> table_reference(s, i)
      [] rule = "column_function" -> column_function(s, i)
      [] rule = "column_identifier_no_alias" -> column_identifier_no_alias(s, i)
      [] rule = "column_identifier" -> column_identifier(s, i)
      [] rule = "clause_lists" -> clause_lists(s, i)
      [] rule = "field_list" -> field_list(s, i)
      [] rule = "field_expr" -> field_expr(s, i)
      [] rule = "group_concat" -> group_concat(s, i)
      [] rule = "index_col_name" -> index_col_name(s, i)
      [] rule = "index_col_list" -> index_col_list(s, i)
      [] rule = "key_columns" -> key_columns(s, i)
      [] rule = "fulltext_key" -> fulltext_key(s, i)
      [] rule = "primary_key" -> primary_key(s, i)
      [] rule = "unique_key" -> unique_key(s, i)
      [] rule = "plain_key" -> plain_key(s, i)
      [] rule = "key_specification" -> key_specification(s, i)
      [] rule = "key_specification_list" -> key_specification_list(s, i)
      [] rule = "type_identifier" -> type_identifier(s, i)
      [] rule = "parse_comment" -> parse_comment(s, i)
      [] rule = "default_literal" -> default_literal(s, i)
      [] rule = "default_constraint" -> default_constraint(s, i)
      [] rule = "column_constraint" -> column_constraint(s, i)
      [] rule = "field_specification" -> field_specification(s, i)
      [] rule = "field_specification_list" -> field_specification_list(s, i)
      [] rule = "field_fk_specification_list" -> field_fk_specification_list(s, i)
      [] rule = "foreign_key_ref_action" -> foreign_key_ref_action(s, i)
      [] rule = "foreign_key_ref_action_list" -> foreign_key_ref_action_list(s, i)
      [] rule = "fk_columns" -> fk_columns(s, i)
      [] rule = "foreign_key_specification" -> foreign_key_specification(s, i)
      [] rule = "foreign_key_specification_list" -> foreign_key_specification_list(s, i)
      [] rule = "table_options" -> table_options(s, i)
      [] rule = "statement_terminator" -> statement_terminator(s, i)
      [] rule = "creation" -> creation(s, i)
      [] rule = "nested_selection" -> nested_selection(s, i)
      [] rule = "compound_operand" -> compound_operand(s, i)
      [] rule = "compound_selection" -> compound_selection(s, i)
      [] rule = "view_definition" -> view_definition(s, i)
      [] rule = "view_creation" -> view_creation(s, i)

-----------------------------------------------------------------------------
(* Comparison operators (common.rs) *)

(* map!(delimited!(opt!(multispace), caseless_tag!(word), multispace),
   |_| operator) *)
logical_operator(word, operator, s, i) ==
    LET r1 == tag_no_case(B(word), s, opt_multispace(s, i).pos) IN
    IF r1.st # "Done" THEN Failed ELSE
    LET r2 == multispace(s, r1.pos) IN
    IF r2.st # "Done" THEN Failed ELSE Done(r2.pos, operator)

(* Parse logical operators *)
binary_logical_operator(s, i) ==
    IF logical_operator("and", "And", s, i).st = "Done"
    THEN logical_operator("and", "And", s, i)
    ELSE logical_operator("or", "Or", s, i)

(* the alternatives with the one-byte tokens tried before the longer tokens
   they begin *)
binary_comparison_operator_short_first(s, i) ==
    IF tag_no_case(B("like"), s, i).st = "Done" THEN Done(i + 4, "Like")
    ELSE IF tag_no_case(B("not_like"), s, i).st = "Done"
    THEN Done(i + 8, "NotLike")
    ELSE IF tag_no_case(B("="), s, i).st = "Done" THEN Done(i + 1, "Equal")
    ELSE IF tag_no_case(B("<"), s, i).st = "Done" THEN Done(i + 1, "Less")
    ELSE IF tag_no_case(B(">"), s, i).st = "Done" THEN Done(i + 1, "Greater")
    ELSE IF tag_no_case(B("!="), s, i).st = "Done"
    THEN Done(i + 2, "NotEqual")
    ELSE IF tag_no_case(B("<>"), s, i).st = "Done"
    THEN Done(i + 2, "NotEqual")
    ELSE IF tag_no_case(B(">="), s, i).st = "Done"
    THEN Done(i + 2, "GreaterOrEqual")
    ELSE IF tag_no_case(B("<="), s, i).st = "Done"
    THEN Done(i + 2, "LessOrEqual")
    ELSE Failed

(* Parse binary comparison operators: alt_complete! of caseless tags, tried
   in the order written *)
binary_comparison_operator(s, i) ==
    IF tag_no_case(B("not_like"), s, i).st = "Done"
    THEN Done(i + 8, "NotLike")
    ELSE IF tag_no_case(B("like"), s, i).st = "Done" THEN Done(i + 4, "Like")
    ELSE IF tag_no_case(B("!="), s, i).st = "Done"
    THEN Done(i + 2, "NotEqual")
    ELSE IF tag_no_case(B("<>"), s, i).st = "Done"
    THEN Done(i + 2, "NotEqual")
    ELSE IF tag_no_case(B(">="), s, i).st = "Done"
    THEN Done(i + 2, "GreaterOrEqual")
    ELSE IF tag_no_case(B("<="), s, i).st = "Done"
    THEN Done(i + 2, "LessOrEqual")
    ELSE IF tag_no_case(B("="), s, i).st = "Done" THEN Done(i + 1, "Equal")
    ELSE IF tag_no_case(B("<"), s, i).st = "Done" THEN Done(i + 1, "Less")
    ELSE IF tag_no_case(B(">"), s, i).st = "Done" THEN Done(i + 1, "Greater")
    ELSE Failed

-----------------------------------------------------------------------------
(* The formatter.  Display for Column, ColumnSpecification, SqlType,
   ColumnConstraint, Literal, Table and TableKey is not part of the sources
   at hand; each follows its rendering rule: upper-case type names with the
   width in parentheses, identifiers escaped only when reserved, constraints
   in stored order and space-separated. *)

UpperTypeName(name) ==
    CASE name = "Int" -> B("INT")
      [] name = "Bigint" -> B("BIGINT")
      [] name = "Varchar" -> B("VARCHAR")
      [] name = "Text" -> B("TEXT")

DisplaySqlType(t) ==
    IF IsSome(t.len)
    THEN UpperTypeName(t.name) \o B("(") \o Unwrap(t.len) \o B(")")
    ELSE UpperTypeName(t.name)

DisplayLiteral(l) ==
    CASE l.kind = "String" -> B("'") \o l.a \o B("'")
      [] l.kind = "Integer" -> l.a
      [] l.kind = "FixedPoint" -> l.a \o B(".") \o l.b
      [] l.kind = "Null" -> B("NULL")
      [] l.kind = "CurrentTimestamp" -> B("CURRENT_TIMESTAMP")

DisplayColumnConstraint(c) ==
    CASE c.kind = "NotNull" -> B("NOT NULL")
      [] c.kind = "AutoIncrement" -> B("AUTO_INCREMENT")
      [] c.kind = "DefaultValue" -> B("DEFAULT ") \o DisplayLiteral(c.arg)
      [] c.kind = "PrimaryKey" -> B("PRIMARY KEY")
      [] c.kind = "Unique" -> B("UNIQUE")
      [] c.kind = "CharacterSet" -> B("CHARACTER SET ") \o c.arg
      [] c.kind = "Collation" -> B("COLLATE ") \o c.arg

DisplayColumnSpecification(f) ==
    escape_if_keyword(f.column.name) \o B(" ") \o DisplaySqlType(f.sql_type)
    \o Join([k \in 1..Len(f.constraints) |->
                B(" ") \o DisplayColumnConstraint(f.constraints[k])], <<>>)
    \o (IF IsSome(f.comment)
        THEN B(" COMMENT '") \o Unwrap(f.comment) \o B("'") ELSE <<>>)

DisplayColumn(c) ==
    (IF IsSome(c.table)
     THEN escape_if_keyword(Unwrap(c.table)) \o B(".")
          \o escape_if_keyword(c.name)
     ELSE IF IsSome(c.function)
     THEN DisplayFunctionExpression(Unwrap(c.function))
     ELSE escape_if_keyword(c.name))
    \o (IF IsSome(c.alias)
        THEN B(" AS ") \o escape_if_keyword(Unwrap(c.alias)) ELSE <<>>)

DisplayTable(t) ==
    escape_if_keyword(t.name)
    \o (IF IsSome(t.alias)
        THEN B(" AS ") \o escape_if_keyword(Unwrap(t.alias)) ELSE <<>>)

DisplayTableKey(key) ==
    (CASE key.kind = "PrimaryKey" -> B("PRIMARY KEY ")
       [] key.kind = "UniqueKey" -> B("UNIQUE KEY ")
       [] key.kind = "FulltextKey" -> B("FULLTEXT KEY ")
       [] key.kind = "Key" -> B("KEY "))
    \o (IF IsSome(key.name)
        THEN escape_if_keyword(Unwrap(key.name)) \o B(" ") ELSE <<>>)
    \o B("(")
    \o Join([k \in 1..Len(key.columns) |->
                escape_if_keyword(key.columns[k].name)], B(", "))
    \o B(")")

DisplayForeignKeySpecification_spaced(fk) ==
    (IF IsSome(fk.name)
     THEN B("CONSTRAINT ") \o Unwrap(fk.name) \o B(" ") ELSE <<>>)
    \o (IF Len(fk.from) > 0
        THEN B("FOREIGN KEY(")
             \o Join([k \in 1..Len(fk.from) |-> DisplayColumn(fk.from[k])],
                     B(", "))
             \o B(")")
        ELSE <<>>)
    \o B(" REFERENCES ") \o DisplayTable(fk.that_table)
    \o (IF Len(fk.to) > 0
        THEN B("(")
             \o Join([k \in 1..Len(fk.to) |-> DisplayColumn(fk.to[k])],
                     B(", "))
             \o B(")")
        ELSE <<>>)
    \o (IF IsSome(fk.ref_action)
        THEN B(" ") \o Unwrap(fk.ref_action) \o B(" ") ELSE <<>>)

(* impl fmt::Display for ForeignKeySpecification *)
DisplayForeignKeySpecification(fk) ==
    (IF IsSome(fk.name)
     THEN B("CONSTRAINT ") \o Unwrap(fk.name) \o B(" ") ELSE <<>>)
    \o (IF Len(fk.from) > 0
        THEN B("FOREIGN KEY(")
             \o Join([k \in 1..Len(fk.from) |-> DisplayColumn(fk.from[k])],
                     B(","))
             \o B(")")
        ELSE <<>>)
    \o B(" REFERENCES ") \o DisplayTable(fk.that_table)
    \o (IF Len(fk.to) > 0
        THEN B("(")
             \o Join([k \in 1..Len(fk.to) |-> DisplayColumn(fk.to[k])],
                     B(","))
             \o B(")")
        ELSE <<>>)
    \o (IF IsSome(fk.ref_action)
        THEN B(" ") \o Unwrap(fk.ref_action) \o B(" ") ELSE <<>>)

DisplayCreateTableStatement_fkeys_first(st) ==
    B("CREATE TABLE ") \o escape_if_keyword(st.table.name) \o B(" ")
    \o B("(")
    \o Join([k \in 1..Len(st.fields) |->
                DisplayColumnSpecification(st.fields[k])], B(", "))
    \o (IF IsSome(st.fkeys)
        THEN B(", ")
             \o Join([k \in 1..Len(Unwrap(st.fkeys)) |->
                         DisplayForeignKeySpecification(Unwrap(st.fkeys)[k])],
                     B(", "))
        ELSE <<>>)
    \o (IF IsSome(st.keys)
        THEN B(", ")
             \o Join([k \in 1..Len(Unwrap(st.keys)) |->
                         DisplayTableKey(Unwrap(st.keys)[k])], B(", "))
        ELSE <<>>)
    \o B(")")

(* impl fmt::Display for CreateTableStatement *)
DisplayCreateTableStatement(st) ==
    B("CREATE TABLE ") \o escape_if_keyword(st.table.name) \o B(" ")
    \o B("(")
    \o Join([k \in 1..Len(st.fields) |->
                DisplayColumnSpecification(st.fields[k])], B(", "))
    \o (IF IsSome(st.keys)
        THEN B(", ")
             \o Join([k \in 1..Len(Unwrap(st.keys)) |->
                         DisplayTableKey(Unwrap(st.keys)[k])], B(", "))
        ELSE <<>>)
    \o (IF IsSome(st.fkeys)
        THEN B(", ")
             \o Join([k \in 1..Len(Unwrap(st.fkeys)) |->
                         DisplayForeignKeySpecification(Unwrap(st.fkeys)[k])],
                     B(", "))
        ELSE <<>>)
    \o B(")")

-----------------------------------------------------------------------------
(* The buffers handed to the parsers.  A buffer is written clause by clause:
   a header, field specifications, key specifications, foreign-key
   specifications, a tail.  shape records what was written. *)

MaxClauses == 2

(* a reserved word, or any name, between backticks *)
Q(name) == <<Backtick>> \o B(name) \o <<Backtick>>

Clause(txt, flags) == [txt |-> txt, flags |-> flags]

Headers ==
    {Clause(B("CREATE TABLE t ("), {}),
     Clause(B("CREATE TABLE t("), {}),
     Clause(B("create  table ") \o Q("select") \o B("("), {"keyword"}),
     Clause(B("CREATE TABLE t AS a ("), {"alias"}),
     Clause(<<>>, {"list"})}

FieldClauses ==
    {Clause(B("x int"), {}),
     Clause(B("n varchar(80)"), {}),
     Clause(Q("name") \o B(" varchar(80) NOT NULL UNIQUE"), {"constrained"}),
     Clause(B("y"), {"untyped"}),
     Clause(Q("key") \o B(" varchar(8) NOT NULL"), {"keyword"}),
     Clause(B("o.z bigint(20) NULL DEFAULT 007"), {"qualified"}),
     Clause(B("d int DEFAULT 9223372036854775808"), {"overflow"}),
     Clause(B("r int DEFAULT 2147483648.5"), {"overflow"}),
     Clause(B("r int DEFAULT 1.2147483648"), {"overflow"}),
     Clause(B("s text DEFAULT '") \o <<"0xFF">> \o B("'"), {"badutf8"})}

KeyClauses ==
    {Clause(B("PRIMARY KEY (x)"), {}),
     Clause(B("UNIQUE KEY k (o.x, y)"), {"qualified"}),
     Clause(B("FULLTEXT INDEX (y)"), {}),
     Clause(B("KEY ") \o Q("index") \o B(" (x(40), y desc)"), {"keyword"}),
     Clause(B("KEY k (x(65536))"), {"overflow"}),
     Clause(B("PRIMARY KEY x"), {"malformed"})}

FKeyClauses ==
    {Clause(B("FOREIGN KEY(x) REFERENCES u(y)"), {}),
     Clause(B("CONSTRAINT fk FOREIGN KEY (x, y) REFERENCES u (a, b)")
            \o B(" ON DELETE RESTRICT on update restrict"), {"refaction"}),
     Clause(B("CONSTRAINT ") \o Q("key") \o B(" FOREIGN KEY(x) REFERENCES u(y)"),
            {"keyword", "kwconstraint"}),
     Clause(B("FOREIGN KEY(") \o Q("key") \o B(") REFERENCES ") \o Q("table")
            \o B("(") \o Q("index") \o B(")"), {"keyword"}),
     Clause(B("FOREIGN KEY(x) REFERENCE u(y)"), {"malformed"})}

Tails ==
    {Clause(B(");"), {}),
     Clause(B(") ENGINE=x"), {}),
     Clause(B(") x"), {"malformed"})}

TypeOK ==
    /\ pc \in {"write", "separator", "start", "parsed", "rendered",
               "reparsed"}
    /\ op \in {"none", "creation", "field_specification_list",
               "binary_comparison_operator", "sql_identifier",
               "binary_logical_operator",
               "column_function", "column_identifier",
               "column_identifier_no_alias",
               "foreign_key_specification_list",
               "view_creation", "key_specification"}
    /\ out.st \in {"none", "Done", "Failed", "Panic"}
    /\ out2.st \in {"none", "Done", "Failed", "Panic"}

Init ==
    /\ \E h \in Headers :
         /\ input = h.txt
         /\ shape = [flags |-> h.flags, fields |-> 0, keys |-> 0, fkeys |-> 0]
    /\ pc = "write"
    /\ op = "none"
    /\ out = NoResult
    /\ text = <<>>
    /\ out2 = NoResult

Clauses == shape.fields + shape.keys + shape.fkeys

(* the buffer with one more clause, after a comma when it is not the first *)
Written(c) == input \o (IF Clauses > 0 THEN B(", ") ELSE <<>>) \o c.txt

WriteField ==
    /\ pc = "write" /\ Clauses < MaxClauses
    /\ shape.keys = 0 /\ shape.fkeys = 0
    /\ \E c \in FieldClauses :
         /\ input' = Written(c)
         /\ shape' = [shape EXCEPT !.flags = @ \cup c.flags,
                                   !.fields = @ + 1]
    /\ UNCHANGED <<pc, op, out, text, out2>>

WriteKey ==
    /\ pc = "write" /\ Clauses < MaxClauses
    /\ shape.fields > 0 /\ shape.fkeys = 0
    /\ \E c \in KeyClauses :
         /\ input' = Written(c)
         /\ shape' = [shape EXCEPT !.flags = @ \cup c.flags, !.keys = @ + 1]
    /\ UNCHANGED <<pc, op, out, text, out2>>

WriteFKey ==
    /\ pc = "write" /\ Clauses < MaxClauses
    /\ shape.fields > 0
    /\ \E c \in FKeyClauses :
         /\ input' = Written(c)
         /\ shape' = [shape EXCEPT !.flags = @ \cup c.flags, !.fkeys = @ + 1]
    /\ UNCHANGED <<pc, op, out, text, out2>>

Close ==
    /\ pc = "write" /\ shape.fields > 0
    /\ \E c \in Tails :
         /\ input' = input \o c.txt
         /\ shape' = [shape EXCEPT !.flags = @ \cup c.flags]
    /\ pc' = "start"
    /\ UNCHANGED <<op, out, text, out2>>

(* creation(CompleteByteSlice(input)) *)
Creation ==
    /\ pc = "start"
    /\ out' = named("creation", input, 1)
    /\ op' = "creation"
    /\ pc' = "parsed"
    /\ UNCHANGED <<input, shape, text, out2>>

(* field_specification_list(CompleteByteSlice(input)) *)
FieldSpecificationList ==
    /\ pc = "start"
    /\ out' = named("field_specification_list", input, 1)
    /\ op' = "field_specification_list"
    /\ pc' = "parsed"
    /\ UNCHANGED <<input, shape, text, out2>>

(* format!("{}", statement) *)
Render ==
    /\ pc = "parsed" /\ op = "creation" /\ out.st = "Done"
    /\ text' = DisplayCreateTableStatement(out.val)
    /\ pc' = "rendered"
    /\ UNCHANGED <<input, shape, op, out, out2>>

(* creation(CompleteByteSlice(text)) *)
Reparse ==
    /\ pc = "rendered"
    /\ out2' = named("creation", text, 1)
    /\ pc' = "reparsed"
    /\ UNCHANGED <<input, shape, op, out, text>>

Next ==
    \/ WriteField
    \/ WriteKey
    \/ WriteFKey
    \/ Close
    \/ Creation
    \/ FieldSpecificationList
    \/ Render
    \/ Reparse

Spec == Init /\ [][Next]_vars

-----------------------------------------------------------------------------
(* The buffers handed to the lexical parsers.  A buffer is written piece by
   piece; shape.fields counts the pieces. *)

MaxPieces == 3

Pieces ==
    {B("<"), B(">"), B("="), B("!"), B("like"), B("LIKE"), B("not_"),
     B("Not_"), B(" "), B(":"), B("x"), B("f_o"), B("12"), B("primary"),
     B("Key"), <<Backtick>>, B("'")}

InitLex ==
    /\ input = <<>>
    /\ shape = [flags |-> {}, fields |-> 0, keys |-> 0, fkeys |-> 0]
    /\ pc = "write"
    /\ op = "none"
    /\ out = NoResult
    /\ text = <<>>
    /\ out2 = NoResult

WritePiece ==
    /\ pc = "write" /\ shape.fields < MaxPieces
    /\ \E c \in Pieces :
         /\ input' = input \o c
         /\ shape' = [shape EXCEPT !.fields = @ + 1]
    /\ UNCHANGED <<pc, op, out, text, out2>>

(* binary_comparison_operator(input) *)
BinaryComparisonOperator ==
    /\ pc = "write"
    /\ out' = binary_comparison_operator(input, 1)
    /\ op' = "binary_comparison_operator"
    /\ pc' = "parsed"
    /\ UNCHANGED <<input, shape, text, out2>>

(* sql_identifier(input) *)
SqlIdentifier ==
    /\ pc = "write"
    /\ out' = named("sql_identifier", input, 1)
    /\ op' = "sql_identifier"
    /\ pc' = "parsed"
    /\ UNCHANGED <<input, shape, text, out2>>

NextLex ==
    \/ WritePiece
    \/ BinaryComparisonOperator
    \/ SqlIdentifier

SpecLex == InitLex /\ [][NextLex]_vars

-----------------------------------------------------------------------------
(* The buffers handed to column_function: a function name and "(", the
   columns, an optional SEPARATOR clause, ")".  shape.fields counts the
   columns. *)

FunctionHeads ==
    {Clause(B("count("), {}), Clause(B("sum("), {}), Clause(B("avg("), {}),
     Clause(B("MAX("), {}), Clause(B("min("), {}),
     Clause(B("group_concat("), {"group_concat"}),
     Clause(B("GROUP_CONCAT("), {"group_concat"})}

ColumnPieces ==
    {Clause(B("x"), {}), Clause(B("y"), {}), Clause(B("t.z"), {}),
     Clause(Q("key"), {}), Clause(B("*"), {"star"})}

SeparatorClauses ==
    {Clause(B(" separator '|'"), {"separator"}),
     Clause(B(" separator 'a'"), {"separator"}),
     Clause(B(" SEPARATOR ', '"), {"separator"}),
     Clause(B(" separator'ab'"), {"separator"}),
     Clause(B(" separator'|'"), {"separator"})}

InitFn ==
    /\ \E h \in FunctionHeads :
         /\ input = h.txt
         /\ shape = [flags |-> h.flags, fields |-> 0, keys |-> 0, fkeys |-> 0]
    /\ pc = "write"
    /\ op = "none"
    /\ out = NoResult
    /\ text = <<>>
    /\ out2 = NoResult

WriteColumn ==
    /\ pc = "write" /\ shape.fields < MaxClauses
    /\ "star" \notin shape.flags
    /\ \E c \in ColumnPieces :
         /\ "star" \in c.flags => shape.fields = 0
         /\ input' = input \o (IF shape.fields > 0 THEN B(", ") ELSE <<>>)
                           \o c.txt
         /\ shape' = [shape EXCEPT !.flags = @ \cup c.flags,
                                   !.fields = @ + 1]
    /\ UNCHANGED <<pc, op, out, text, out2>>

WriteSeparator ==
    /\ pc = "write" /\ shape.fields > 0
    /\ "group_concat" \in shape.flags
    /\ \E c \in SeparatorClauses :
         /\ input' = input \o c.txt
         /\ shape' = [shape EXCEPT !.flags = @ \cup c.flags]
    /\ pc' = "separator"
    /\ UNCHANGED <<op, out, text, out2>>

CloseCall ==
    /\ pc \in {"write", "separator"} /\ shape.fields > 0
    /\ input' = input \o B(")")
    /\ pc' = "start"
    /\ UNCHANGED <<shape, op, out, text, out2>>

(* column_function(input) *)
ColumnFunction ==
    /\ pc = "start"
    /\ out' = named("column_function", input, 1)
    /\ op' = "column_function"
    /\ pc' = "parsed"
    /\ UNCHANGED <<input, shape, text, out2>>

NextFn ==
    \/ WriteColumn
    \/ WriteSeparator
    \/ CloseCall
    \/ ColumnFunction

SpecFn == InitFn /\ [][NextFn]_vars

-----------------------------------------------------------------------------
(* The buffers handed to foreign_key_specification_list: foreign-key
   specifications separated by commas, in several spellings.  shape.fkeys
   counts them. *)

FKeyVariants ==
    {Clause(B("FOREIGN KEY(x) REFERENCES u(y)"), {}),
     Clause(B("FOREIGN KEY   (   ") \o Q("x") \o B("   )    REFERENCES   u")
            \o B("    (  ") \o Q("y") \o B("  )"), {}),
     Clause(B("CONSTRAINT fk_name FOREIGN KEY(") \o Q("x")
            \o B(") REFERENCES u(") \o Q("y") \o B(")"), {}),
     Clause(B("constraint ") \o Q("fk_name") \o B(" foreign key (x, y)")
            \o B(" references ") \o Q("u") \o B(" (a ,b)"), {}),
     Clause(B("FOREIGN KEY(") \o Q("key") \o B(") REFERENCES ") \o Q("table")
            \o B("(") \o Q("index") \o B(")"), {"keyword"}),
     Clause(B("CONSTRAINT fk FOREIGN KEY (x, y) REFERENCES u (a, b)")
            \o B(" ON DELETE RESTRICT on update restrict"), {"refaction"}),
     Clause(B("FOREIGN KEY(x) REFERENCE u(y)"), {"malformed"})}

InitFK ==
    /\ input = <<>>
    /\ shape = [flags |-> {}, fields |-> 0, keys |-> 0, fkeys |-> 0]
    /\ pc = "write"
    /\ op = "none"
    /\ out = NoResult
    /\ text = <<>>
    /\ out2 = NoResult

WriteFKeyVariant ==
    /\ pc = "write" /\ shape.fkeys < MaxClauses
    /\ \E c \in FKeyVariants :
         /\ input' = Written(c)
         /\ shape' = [shape EXCEPT !.flags = @ \cup c.flags, !.fkeys = @ + 1]
    /\ UNCHANGED <<pc, op, out, text, out2>>

(* foreign_key_specification_list(CompleteByteSlice(input)) *)
ForeignKeySpecificationList ==
    /\ pc = "write" /\ shape.fkeys > 0
    /\ out' = named("foreign_key_specification_list", input, 1)
    /\ op' = "foreign_key_specification_list"
    /\ pc' = "parsed"
    /\ UNCHANGED <<input, shape, text, out2>>

(* format!("{}", fkey) of every specification returned, joined as Display
   for CreateTableStatement joins them *)
RenderForeignKeys ==
    /\ pc = "parsed" /\ op = "foreign_key_specification_list"
    /\ out.st = "Done"
    /\ text' = Join([k \in 1..Len(out.val) |->
                        DisplayForeignKeySpecification(out.val[k])], B(", "))
    /\ pc' = "rendered"
    /\ UNCHANGED <<input, shape, op, out, out2>>

NextFK ==
    \/ WriteFKeyVariant
    \/ ForeignKeySpecificationList
    \/ RenderForeignKeys

SpecFK == InitFK /\ [][NextFK]_vars

-----------------------------------------------------------------------------
(* The buffers of whole statements with fields, keys and foreign keys
   together: up to MaxClauses of each, then ")" and a terminator. *)

StatementFields ==
    {Clause(B("x int"), {}),
     Clause(Q("name") \o B(" varchar(80) NOT NULL UNIQUE"), {"constrained"})}

StatementKeys ==
    {Clause(B("PRIMARY KEY (x)"), {}), Clause(B("KEY k (x, name)"), {})}

StatementFKeys ==
    {Clause(B("FOREIGN KEY(") \o Q("name") \o B(") REFERENCES artist(")
            \o Q("name") \o B(")"), {}),
     Clause(B("CONSTRAINT fk FOREIGN KEY (x) REFERENCES u (y)"), {})}

(* the closing parenthesis and what ends the statement *)
StatementTails ==
    {Clause(B(")"), {}), Clause(B(");"), {}), Clause(B(") ;  "), {}),
     Clause(B(")") \o <<"\n">>, {}), Clause(B(") ") \o <<"\r", "\n">>, {}),
     Clause(B(")") \o <<"\n">> \o B("x"), {"newline"}),
     Clause(B(") x"), {"malformed"})}

InitStatement ==
    /\ input = B("CREATE TABLE t (")
    /\ shape = [flags |-> {}, fields |-> 0, keys |-> 0, fkeys |-> 0]
    /\ pc = "write"
    /\ op = "none"
    /\ out = NoResult
    /\ text = <<>>
    /\ out2 = NoResult

WriteStatementField ==
    /\ pc = "write" /\ shape.fields < MaxClauses
    /\ shape.keys = 0 /\ shape.fkeys = 0
    /\ \E c \in StatementFields :
         /\ input' = Written(c)
         /\ shape' = [shape EXCEPT !.flags = @ \cup c.flags,
                                   !.fields = @ + 1]
    /\ UNCHANGED <<pc, op, out, text, out2>>

WriteStatementKey ==
    /\ pc = "write" /\ shape.keys < MaxClauses
    /\ shape.fields > 0 /\ shape.fkeys = 0
    /\ \E c \in StatementKeys :
         /\ input' = Written(c)
         /\ shape' = [shape EXCEPT !.flags = @ \cup c.flags, !.keys = @ + 1]
    /\ UNCHANGED <<pc, op, out, text, out2>>

WriteStatementFKey ==
    /\ pc = "write" /\ shape.fkeys < MaxClauses
    /\ shape.fields > 0
    /\ \E c \in StatementFKeys :
         /\ input' = Written(c)
         /\ shape' = [shape EXCEPT !.flags = @ \cup c.flags, !.fkeys = @ + 1]
    /\ UNCHANGED <<pc, op, out, text, out2>>

CloseStatement ==
    /\ pc = "write" /\ shape.fields > 0
    /\ \E c \in StatementTails :
         /\ input' = input \o c.txt
         /\ shape' = [shape EXCEPT !.flags = @ \cup c.flags]
    /\ pc' = "start"
    /\ UNCHANGED <<op, out, text, out2>>

NextStatement ==
    \/ WriteStatementField
    \/ WriteStatementKey
    \/ WriteStatementFKey
    \/ CloseStatement
    \/ Creation
    \/ Render

SpecStatement == InitStatement /\ [][NextStatement]_vars

-----------------------------------------------------------------------------
(* The buffers handed to view_creation: a header, SELECTs joined by UNION,
   a tail.  shape.fields counts the SELECTs. *)

ViewHeaders ==
    {Clause(B("CREATE VIEW v AS "), {}),
     Clause(B("create view ") \o Q("v") \o B(" as "), {}),
     Clause(B("CREATE VIEW v (a, b) AS "), {"columns"}),
     Clause(B("CREATE VIEW v AS"), {"malformed"})}

Selects ==
    {Clause(B("SELECT * FROM users"), {}),
     Clause(B("select x, y from ") \o Q("t"), {}),
     Clause(B("SELECT * users"), {"malformed"})}

ViewTails ==
    {Clause(B(";"), {}), Clause(<<>>, {}), Clause(B(" ;  "), {}),
     Clause(B(" UNION"), {"malformed"})}

InitView ==
    /\ \E h \in ViewHeaders :
         /\ input = h.txt
         /\ shape = [flags |-> h.flags, fields |-> 0, keys |-> 0, fkeys |-> 0]
    /\ pc = "write"
    /\ op = "none"
    /\ out = NoResult
    /\ text = <<>>
    /\ out2 = NoResult

WriteSelect ==
    /\ pc = "write" /\ shape.fields < MaxClauses
    /\ \E c \in Selects :
         /\ input' = input
                     \o (IF shape.fields > 0 THEN B(" UNION ") ELSE <<>>)
                     \o c.txt
         /\ shape' = [shape EXCEPT !.flags = @ \cup c.flags,
                                   !.fields = @ + 1]
    /\ UNCHANGED <<pc, op, out, text, out2>>

CloseView ==
    /\ pc = "write" /\ shape.fields > 0
    /\ \E c \in ViewTails :
         /\ input' = input \o c.txt
         /\ shape' = [shape EXCEPT !.flags = @ \cup c.flags]
    /\ pc' = "start"
    /\ UNCHANGED <<op, out, text, out2>>

(* view_creation(CompleteByteSlice(input)) *)
ViewCreation ==
    /\ pc = "start"
    /\ out' = named("view_creation", input, 1)
    /\ op' = "view_creation"
    /\ pc' = "parsed"
    /\ UNCHANGED <<input, shape, text, out2>>

NextView ==
    \/ WriteSelect
    \/ CloseView
    \/ ViewCreation

SpecView == InitView /\ [][NextView]_vars

-----------------------------------------------------------------------------
(* A buffer of several statements, parsed one after the other: creation is
   invoked on the buffer, then on the remainder it returned, and so on.
   shape.fields counts the statements written, shape.keys the invocations;
   text is the remainder. *)

BufferStatements ==
    {Clause(B("CREATE TABLE t (x int);"), {}),
     Clause(B("create table u (y, PRIMARY KEY (y)) ;"), {}),
     Clause(B("CREATE TABLE ") \o Q("key") \o B(" (n varchar(80)) ENGINE=x;"),
            {}),
     Clause(B("CREATE TABLE w (x int)"), {"unterminated"})}

BufferSeparators == {B(" "), <<"\n">>, <<"\r", "\n", " ", " ">>}

InitBuffer ==
    /\ input = <<>>
    /\ shape = [flags |-> {}, fields |-> 0, keys |-> 0, fkeys |-> 0]
    /\ pc = "write"
    /\ op = "none"
    /\ out = NoResult
    /\ text = <<>>
    /\ out2 = NoResult

WriteBufferStatement ==
    /\ pc = "write" /\ shape.fields < MaxClauses
    /\ \E c \in BufferStatements, sep \in BufferSeparators :
         /\ input' = input \o c.txt \o sep
         /\ text' = input'
         /\ shape' = [shape EXCEPT !.flags = @ \cup c.flags,
                                   !.fields = @ + 1]
    /\ UNCHANGED <<pc, op, out, out2>>

(* creation(remainder) *)
CreationOnRemainder ==
    /\ \/ pc = "write" /\ shape.fields > 0
       \/ pc = "parsed" /\ out.st = "Done" /\ Len(text) > 0
    /\ out' = named("creation", text, 1)
    /\ text' = IF out'.st = "Done" THEN Rest(text, out'.pos) ELSE text
    /\ op' = "creation"
    /\ pc' = "parsed"
    /\ shape' = [shape EXCEPT !.keys = @ + 1]
    /\ UNCHANGED <<input, out2>>

NextBuffer ==
    \/ WriteBufferStatement
    \/ CreationOnRemainder

SpecBuffer == InitBuffer /\ [][NextBuffer]_vars

-----------------------------------------------------------------------------
(* The buffers handed to key_specification: the kind of key and "(", the
   index columns, ")".  shape.fields counts the columns. *)

KeyHeads ==
    {B("PRIMARY KEY ("), B("primary key("), B("UNIQUE KEY k ("),
     B("UNIQUE ("), B("FULLTEXT INDEX ("), B("KEY k ("),
     B("INDEX ") \o Q("index") \o B(" ( ")}

IndexColumns == {B("x"), Q("w"), B("y(10)"), B("z desc")}

InitKey ==
    /\ input \in KeyHeads
    /\ shape = [flags |-> {}, fields |-> 0, keys |-> 0, fkeys |-> 0]
    /\ pc = "write"
    /\ op = "none"
    /\ out = NoResult
    /\ text = <<>>
    /\ out2 = NoResult

WriteIndexColumn ==
    /\ pc = "write" /\ shape.fields < MaxClauses
    /\ \E c \in IndexColumns :
         input' = input \o (IF shape.fields > 0 THEN B(", ") ELSE <<>>) \o c
    /\ shape' = [shape EXCEPT !.fields = @ + 1]
    /\ UNCHANGED <<pc, op, out, text, out2>>

CloseKey ==
    /\ pc = "write"
    /\ input' = input \o B(")")
    /\ pc' = "start"
    /\ UNCHANGED <<shape, op, out, text, out2>>

(* key_specification(CompleteByteSlice(input)) *)
KeySpecification ==
    /\ pc = "start"
    /\ out' = named("key_specification", input, 1)
    /\ op' = "key_specification"
    /\ pc' = "parsed"
    /\ UNCHANGED <<input, shape, text, out2>>

NextKey ==
    \/ WriteIndexColumn
    \/ CloseKey
    \/ KeySpecification

SpecKey == InitKey /\ [][NextKey]_vars

-----------------------------------------------------------------------------
(* The buffers of one field specification with its constraints, handed to
   field_specification_list.  shape.keys counts the constraints. *)

ConstraintPieces ==
    {B("AUTO_INCREMENT"), B("NOT NULL"), B("not null"), B("NULL"),
     B("null"), B("PRIMARY KEY"), B("UNIQUE"), B("DEFAULT NULL"),
     B("DEFAULT 5"), B("default 'a'"), B("COLLATE c"),
     B("CHARACTER SET u")}

InitConstraint ==
    /\ input = B("x int")
    /\ shape = [flags |-> {}, fields |-> 1, keys |-> 0, fkeys |-> 0]
    /\ pc = "write"
    /\ op = "none"
    /\ out = NoResult
    /\ text = <<>>
    /\ out2 = NoResult

WriteConstraint ==
    /\ pc = "write" /\ shape.keys < MaxClauses + 1
    /\ \E c \in ConstraintPieces : input' = input \o B(" ") \o c
    /\ shape' = [shape EXCEPT !.keys = @ + 1]
    /\ UNCHANGED <<pc, op, out, text, out2>>

CloseField ==
    /\ pc = "write"
    /\ \E c \in {<<>>, B(" "), B(",")} : input' = input \o c
    /\ pc' = "start"
    /\ UNCHANGED <<shape, op, out, text, out2>>

NextConstraint ==
    \/ WriteConstraint
    \/ CloseField
    \/ FieldSpecificationList

SpecConstraint == InitConstraint /\ [][NextConstraint]_vars

-----------------------------------------------------------------------------
(* Two buffers written side by side: input holds a CREATE TABLE statement
   whose key gives index columns with a length and a sort order, text the
   same statement with the bare columns.  shape.keys counts the columns. *)

IndexNames == {B("a"), Q("b")}

IndexSuffixes ==
    {<<>>, B("(40)"), B(" (40)"), B(" desc"), B(" ASC"), B("(40)desc"),
     B("(40) DESC"), B("(70000)")}

InitIndex ==
    /\ input = B("CREATE TABLE t (a int, KEY k (")
    /\ text = input
    /\ shape = [flags |-> {}, fields |-> 1, keys |-> 0, fkeys |-> 0]
    /\ pc = "write"
    /\ op = "none"
    /\ out = NoResult
    /\ out2 = NoResult

WriteIndexed ==
    /\ pc = "write" /\ shape.keys < MaxClauses
    /\ \E c \in IndexNames, d \in IndexSuffixes, sep \in {B(","), B(", ")} :
         LET comma == IF shape.keys > 0 THEN sep ELSE <<>> IN
         /\ shape.keys = 0 => sep = B(",")
         /\ input' = input \o comma \o c \o d
         /\ text' = text \o comma \o c
    /\ shape' = [shape EXCEPT !.keys = @ + 1]
    /\ UNCHANGED <<pc, op, out, out2>>

CloseIndexed ==
    /\ pc = "write" /\ shape.keys > 0
    /\ input' = input \o B("))")
    /\ text' = text \o B("))")
    /\ pc' = "start"
    /\ UNCHANGED <<shape, op, out, out2>>

(* creation(CompleteByteSlice(text)), after creation on input *)
CreationOfBare ==
    /\ pc = "parsed" /\ op = "creation"
    /\ out2' = named("creation", text, 1)
    /\ pc' = "reparsed"
    /\ UNCHANGED <<input, shape, op, out, text>>

NextIndex ==
    \/ WriteIndexed
    \/ CloseIndexed
    \/ Creation
    \/ CreationOfBare

SpecIndex == InitIndex /\ [][NextIndex]_vars

-----------------------------------------------------------------------------
(* The buffers handed to column_identifier and column_identifier_no_alias:
   a function call written as for column_function, then what follows it. *)

AliasClauses ==
    {Clause(B(" AS m"), {"alias"}), Clause(B(" as ") \o Q("key"), {"alias"}),
     Clause(B("  As  n2"), {"alias"}), Clause(B(" m"), {"trailer"}),
     Clause(B(" AS key"), {"trailer"}), Clause(B(" AS"), {"trailer"}),
     Clause(B(", y"), {"trailer"})}

WriteAlias ==
    /\ pc = "start" /\ shape.flags \cap {"alias", "trailer"} = {}
    /\ \E c \in AliasClauses :
         /\ input' = input \o c.txt
         /\ shape' = [shape EXCEPT !.flags = @ \cup c.flags]
    /\ UNCHANGED <<pc, op, out, text, out2>>

(* column_identifier(input) *)
ColumnIdentifier ==
    /\ pc = "start"
    /\ out' = named("column_identifier", input, 1)
    /\ op' = "column_identifier"
    /\ pc' = "parsed"
    /\ UNCHANGED <<input, shape, text, out2>>

(* column_identifier_no_alias(input) *)
ColumnIdentifierNoAlias ==
    /\ pc = "start"
    /\ out' = named("column_identifier_no_alias", input, 1)
    /\ op' = "column_identifier_no_alias"
    /\ pc' = "parsed"
    /\ UNCHANGED <<input, shape, text, out2>>

NextColumn ==
    \/ WriteColumn
    \/ CloseCall
    \/ WriteAlias
    \/ ColumnIdentifier
    \/ ColumnIdentifierNoAlias

SpecColumn == InitFn /\ [][NextColumn]_vars

-----------------------------------------------------------------------------
(* The buffers handed to binary_logical_operator, written piece by piece;
   shape.fields counts the pieces. *)

LogicalPieces ==
    {B(" "), <<"\t">>, B("and"), B("AND"), B("or"), B("Or"), B("b"),
     B("roid"), B("(")}

WriteLogicalPiece ==
    /\ pc = "write" /\ shape.fields < MaxPieces
    /\ \E c \in LogicalPieces :
         /\ input' = input \o c
         /\ shape' = [shape EXCEPT !.fields = @ + 1]
    /\ UNCHANGED <<pc, op, out, text, out2>>

(* binary_logical_operator(input) *)
BinaryLogicalOperator ==
    /\ pc = "write"
    /\ out' = binary_logical_operator(input, 1)
    /\ op' = "binary_logical_operator"
    /\ pc' = "parsed"
    /\ UNCHANGED <<input, shape, text, out2>>

NextLogical ==
    \/ WriteLogicalPiece
    \/ BinaryLogicalOperator

SpecLogical == InitLex /\ [][NextLogical]_vars

-----------------------------------------------------------------------------
(* The buffers handed to field_specification_list: field specifications
   with or without a comma between them.  shape.fields counts the fields. *)

FieldPieces == {B("x int"), B("y bigint(20)"), Q("z") \o B(" varchar(80)"), B("w")}

FieldSeparators == {B(","), B(", "), B(" , "), B(" ")}

InitFields ==
    /\ \E f \in FieldPieces : input = f
    /\ shape = [flags |-> {}, fields |-> 1, keys |-> 0, fkeys |-> 0]
    /\ pc = "write"
    /\ op = "none"
    /\ out = NoResult
    /\ text = <<>>
    /\ out2 = NoResult

WriteNextField ==
    /\ pc = "write" /\ shape.fields < MaxClauses + 1
    /\ \E sep \in FieldSeparators, f \in FieldPieces :
         input' = input \o sep \o f
    /\ shape' = [shape EXCEPT !.fields = @ + 1]
    /\ UNCHANGED <<pc, op, out, text, out2>>

CloseFields ==
    /\ pc = "write"
    /\ \E c \in {<<>>, B(","), B(", ")} : input' = input \o c
    /\ pc' = "start"
    /\ UNCHANGED <<shape, op, out, text, out2>>

NextFields ==
    \/ WriteNextField
    \/ CloseFields
    \/ FieldSpecificationList

SpecFields == InitFields /\ [][NextFields]_vars

-----------------------------------------------------------------------------
(* The buffers handed to foreign_key_specification_list: one foreign key
   and the ON clauses after it.  shape.keys counts the ON clauses. *)

RefActionClauses ==
    {B(" ON DELETE RESTRICT"), B(" on update restrict"),
     B(" On Delete Restrict"), B("ON UPDATE RESTRICT"),
     B(" ON DELETE CASCADE"), B(" ON UPDATE SET NULL")}

InitRefAction ==
    /\ input = B("FOREIGN KEY(x) REFERENCES u(y)")
    /\ shape = [flags |-> {}, fields |-> 0, keys |-> 0, fkeys |-> 1]
    /\ pc = "write"
    /\ op = "none"
    /\ out = NoResult
    /\ text = <<>>
    /\ out2 = NoResult

WriteRefAction ==
    /\ pc = "write" /\ shape.keys < MaxClauses + 1
    /\ \E c \in RefActionClauses :
         /\ shape.keys > 0 => c[1] = " "
         /\ input' = input \o c
    /\ shape' = [shape EXCEPT !.keys = @ + 1]
    /\ UNCHANGED <<pc, op, out, text, out2>>

NextRefAction ==
    \/ WriteRefAction
    \/ ForeignKeySpecificationList

SpecRefAction == InitRefAction /\ [][NextRefAction]_vars

-----------------------------------------------------------------------------
(* The buffers of statements whose fields, keys and foreign keys are also
   handed to the sub-parsers of creation: fields, then keys, at most one
   foreign key, then ")". *)

FrameHeader == B("CREATE TABLE t (")

FrameFields ==
    {B("x int NOT NULL COMMENT 'c'"), B("o.z text"), B("max(x) int")}

FrameKeys ==
    {B("PRIMARY KEY (x)"), B("UNIQUE KEY k (o.x, y)"), B("FULLTEXT KEY f (x)"),
     B("KEY ") \o Q("key") \o B(" (min(x))")}

FrameFKeys ==
    {B("FOREIGN KEY(x) REFERENCES u(y)"),
     B("CONSTRAINT c FOREIGN KEY (x, y) REFERENCES u (a, b)")
        \o B(" ON DELETE RESTRICT")}

InitFrame ==
    /\ input = FrameHeader
    /\ shape = [flags |-> {}, fields |-> 0, keys |-> 0, fkeys |-> 0]
    /\ pc = "write"
    /\ op = "none"
    /\ out = NoResult
    /\ text = <<>>
    /\ out2 = NoResult

WriteFrameField ==
    /\ pc = "write" /\ shape.fields < MaxClauses
    /\ shape.keys = 0 /\ shape.fkeys = 0
    /\ \E c \in FrameFields :
         input' = input \o (IF Clauses > 0 THEN B(", ") ELSE <<>>) \o c
    /\ shape' = [shape EXCEPT !.fields = @ + 1]
    /\ UNCHANGED <<pc, op, out, text, out2>>

WriteFrameKey ==
    /\ pc = "write" /\ shape.keys < MaxClauses
    /\ shape.fields > 0 /\ shape.fkeys = 0
    /\ \E c \in FrameKeys : input' = input \o B(", ") \o c
    /\ shape' = [shape EXCEPT !.keys = @ + 1]
    /\ UNCHANGED <<pc, op, out, text, out2>>

WriteFrameFKey ==
    /\ pc = "write" /\ shape.fkeys = 0
    /\ shape.fields > 0
    /\ \E c \in FrameFKeys : input' = input \o B(", ") \o c
    /\ shape' = [shape EXCEPT !.fkeys = @ + 1]
    /\ UNCHANGED <<pc, op, out, text, out2>>

CloseFrame ==
    /\ pc = "write" /\ shape.fields > 0
    /\ input' = input \o B(")")
    /\ pc' = "start"
    /\ UNCHANGED <<shape, op, out, text, out2>>

(* field_specification_list, opt!(key_specification_list) and
   opt!(foreign_key_specification_list) on the buffer creation was given,
   from the byte after its opening parenthesis *)
ClauseLists ==
    /\ pc = "parsed" /\ op = "creation"
    /\ out2' = named("clause_lists", input, Len(FrameHeader) + 1)
    /\ pc' = "reparsed"
    /\ UNCHANGED <<input, shape, op, out, text>>

NextFrame ==
    \/ WriteFrameField
    \/ WriteFrameKey
    \/ WriteFrameFKey
    \/ CloseFrame
    \/ Creation
    \/ ClauseLists

SpecFrame == InitFrame /\ [][NextFrame]_vars

-----------------------------------------------------------------------------
(* The buffers handed to key_specification to read the name of a key: the
   kind of key, a name or none, the columns. *)

KeyKinds ==
    {Clause(B("UNIQUE"), {"unique"}), Clause(B("UNIQUE KEY"), {"unique"}),
     Clause(B("unique index"), {"unique"}),
     Clause(B("FULLTEXT KEY"), {"fulltext"}),
     Clause(B("fulltext INDEX"), {"fulltext"}),
     Clause(B("PRIMARY KEY"), {"primary"}),
     Clause(B("KEY"), {"plain"}), Clause(B("index"), {"plain"})}

KeyNames ==
    {B("k"), B("id_k"), B("key_name"), B("KEY_A"), B("index_a"), B("keys"),
     Q("key"), Q("index_b")}

KeyColumnLists == {B("(id)"), B("(id, x)"), B("( id )")}

InitKeyName ==
    /\ \E k \in KeyKinds :
         /\ input = k.txt
         /\ shape = [flags |-> k.flags, fields |-> 0, keys |-> 0, fkeys |-> 0]
    /\ pc = "write"
    /\ op = "none"
    /\ out = NoResult
    /\ text = <<>>
    /\ out2 = NoResult

WriteKeyName ==
    /\ pc = "write" /\ "name" \notin shape.flags
    /\ \E n \in KeyNames : input' = input \o B(" ") \o n
    /\ shape' = [shape EXCEPT !.flags = @ \cup {"name"}]
    /\ UNCHANGED <<pc, op, out, text, out2>>

WriteKeyColumns ==
    /\ pc = "write"
    /\ \E c \in KeyColumnLists, sep \in {<<>>, B(" ")} :
         input' = input \o sep \o c
    /\ pc' = "start"
    /\ UNCHANGED <<shape, op, out, text, out2>>

NextKeyName ==
    \/ WriteKeyName
    \/ WriteKeyColumns
    \/ KeySpecification

SpecKeyName == InitKeyName /\ [][NextKeyName]_vars

-----------------------------------------------------------------------------
(* Properties of CREATE TABLE parsing and rendering, over Spec *)

(* the outcome of creation on a written buffer *)
Created == op = "creation" /\ pc # "start" /\ pc # "write"

(* the smallest and the largest of a non-empty set of indexes *)
First(idx) == CHOOSE k \in idx : \A j \in idx : k <= j
Last(idx) == CHOOSE k \in idx : \A j \in idx : j <= k

(* the flags that tell why a buffer is not a well-formed CREATE TABLE *)
Faults == {"malformed", "overflow", "badutf8", "alias", "list"}

(* C1: whenever creation returns Done, every Column of every field and every
   Column of every key carries table = Some(table.name) of the returned
   statement, whatever qualifier the column was written with. *)
TableNameAttachment ==
    (Created /\ out.st = "Done") =>
        /\ \A k \in 1..Len(out.val.fields) :
             out.val.fields[k].column.table = Some(out.val.table.name)
        /\ IsSome(out.val.keys) =>
             \A k \in 1..Len(Unwrap(out.val.keys)) :
               \A j \in 1..Len(Unwrap(out.val.keys)[k].columns) :
                 Unwrap(out.val.keys)[k].columns[j].table
                     = Some(out.val.table.name)

(* a statement with a key over a column written "o.x" was returned *)
TableNameAttachmentWitness ==
    /\ Created /\ out.st = "Done"
    /\ "qualified" \in shape.flags /\ shape.keys > 0
    /\ IsSome(out.val.keys)
    /\ \E k \in 1..Len(Unwrap(out.val.keys)) :
         Len(Unwrap(out.val.keys)[k].columns) = 2

(* C2: whenever creation returns Done with statement A, parsing the rendering
   of A returns Done with a statement equal to A. *)
IdempotentCanonicalization ==
    pc = "reparsed" => (out2.st = "Done" /\ out2.val = out.val)

(* sub occurs in t *)
Contains(t, sub) ==
    \E k \in 0..(Len(t) - Len(sub)) : SubSeq(t, k + 1, k + Len(sub)) = sub

(* the names of a sequence of columns *)
Names(columns) == [k \in 1..Len(columns) |-> columns[k].name]

(* the identifiers of a statement, position by position *)
Identifiers(st) ==
    [table |-> st.table.name,
     fields |-> [k \in 1..Len(st.fields) |-> st.fields[k].column.name],
     fkeys |-> IF IsSome(st.fkeys)
               THEN [k \in 1..Len(Unwrap(st.fkeys)) |->
                       [name |-> Unwrap(st.fkeys)[k].name,
                        from |-> Names(Unwrap(st.fkeys)[k].from),
                        that_table |-> Unwrap(st.fkeys)[k].that_table.name,
                        to |-> Names(Unwrap(st.fkeys)[k].to)]]
               ELSE <<>>]

(* the identifiers of a statement that are reserved words *)
ReservedIdentifiers(st) ==
    LET ids == Identifiers(st)
        fk == ids.fkeys
        all == {ids.table}
               \cup {ids.fields[k] : k \in 1..Len(ids.fields)}
               \cup {Unwrap(fk[k].name) :
                       k \in {j \in 1..Len(fk) : IsSome(fk[j].name)}}
               \cup {fk[k].that_table : k \in 1..Len(fk)}
               \cup UNION {{fk[k].from[j] : j \in 1..Len(fk[k].from)} :
                             k \in 1..Len(fk)}
               \cup UNION {{fk[k].to[j] : j \in 1..Len(fk[k].to)} :
                             k \in 1..Len(fk)}
    IN  {id \in all : is_reserved(id)}

(* C3: a reserved word written as a quoted identifier in any identifier
   position (table name, column name, foreign-key CONSTRAINT name, referenced
   table, referenced column) is rendered quoted, and the rendering parses to
   a statement with the same identifiers in the same positions. *)
KeywordSafety ==
    (pc = "reparsed" /\ "keyword" \in shape.flags) =>
        /\ \A id \in ReservedIdentifiers(out.val) :
             Contains(text, <<Backtick>> \o id \o <<Backtick>>)
        /\ out2.st = "Done"
        /\ Identifiers(out2.val) = Identifiers(out.val)

(* C4: creation returns Done only when the whole buffer matched: a malformed
   key or foreign-key specification, or a missing terminator, fails the
   statement, and a returned statement holds every clause written. *)
NoPartialCreateTable ==
    Created =>
        /\ "malformed" \in shape.flags => out.st # "Done"
        /\ ("malformed" \in shape.flags
            /\ shape.flags \cap (Faults \ {"malformed"}) = {})
               => out.st = "Failed"
        /\ out.st = "Done" =>
             /\ out.pos = Len(input) + 1
             /\ Len(out.val.fields) = shape.fields
             /\ shape.keys = (IF IsSome(out.val.keys)
                              THEN Len(Unwrap(out.val.keys)) ELSE 0)
             /\ shape.fkeys = (IF IsSome(out.val.fkeys)
                               THEN Len(Unwrap(out.val.fkeys)) ELSE 0)

(* a buffer whose fields parse and whose key specification is malformed
   failed as a whole *)
NoPartialCreateTableWitness ==
    /\ Created /\ out.st = "Failed"
    /\ shape.flags = {"malformed"}
    /\ shape.fields > 0 /\ shape.keys + shape.fkeys > 0

(* C5: creation ends in Done or Failed, and on a buffer that is well formed
   but for an AS-alias on the table it ends in Failed; no returned statement
   has table.alias set. *)
AliasedTableFails ==
    Created =>
        /\ shape.flags \cap (Faults \ {"alias"}) = {}
               => out.st \in {"Done", "Failed"}
        /\ out.st = "Done" => ~IsSome(out.val.table.alias)
        /\ ("alias" \in shape.flags
            /\ shape.flags \cap (Faults \ {"alias"}) = {})
               => out.st = "Failed"

(* C6: on a buffer that is well formed but for a digit run too wide for its
   target (u16 index prefix, i64 DEFAULT integer, i32 DEFAULT fixed-point
   part), creation ends in Failed. *)
NumericOverflowFails ==
    (Created /\ "overflow" \in shape.flags
     /\ shape.flags \cap (Faults \ {"overflow"}) = {})
        => out.st = "Failed"

(* C7: on a buffer that is well formed but for bytes between the quotes of a
   DEFAULT string that are not valid UTF-8, creation ends in Failed. *)
InvalidUtf8Fails ==
    (Created /\ "badutf8" \in shape.flags
     /\ shape.flags \cap (Faults \ {"badutf8"}) = {})
        => out.st = "Failed"

(* the type each field clause is written with; None for the field written
   without one *)
WrittenType(name) ==
    CASE name = B("x") -> Some(SqlType("Int", Some(B("32"))))
      [] name = B("n") -> Some(SqlType("Varchar", Some(B("80"))))
      [] name = B("name") -> Some(SqlType("Varchar", Some(B("80"))))
      [] name = B("y") -> None
      [] name = B("key") -> Some(SqlType("Varchar", Some(B("8"))))
      [] name = B("z") -> Some(SqlType("Bigint", Some(B("20"))))
      [] name = B("s") -> Some(SqlTypeText)
      [] OTHER -> Some(SqlType("Int", Some(B("32"))))

(* the fields of a Done outcome of creation or field_specification_list *)
ParsedFields == IF op = "creation" THEN out.val.fields ELSE out.val

(* C8: in the outcome of field_specification_list and of creation, a field
   written without a type has sql_type Text, and a field written with a type
   has that type. *)
DefaultTypeText ==
    (op \in {"creation", "field_specification_list"} /\ out.st = "Done") =>
        \A k \in 1..Len(ParsedFields) :
          LET written == WrittenType(ParsedFields[k].column.name)
          IN  ParsedFields[k].sql_type
                  = (IF IsSome(written) THEN Unwrap(written) ELSE SqlTypeText)

(* CREATE TABLE t (y) was parsed to one field of type Text *)
DefaultTypeTextWitness ==
    /\ Created /\ out.st = "Done"
    /\ shape.flags = {"untyped"} /\ shape.fields = 1
    /\ Len(out.val.fields) = 1
    /\ out.val.fields[1].column.name = B("y")
    /\ out.val.fields[1].sql_type = SqlTypeText

-----------------------------------------------------------------------------
(* Properties of the lexical parsers, over SpecLex *)

(* the operator tokens and the operator each stands for *)
OperatorTokens ==
    {[tok |-> B("not_like"), operator |-> "NotLike"],
     [tok |-> B("like"), operator |-> "Like"],
     [tok |-> B("!="), operator |-> "NotEqual"],
     [tok |-> B("<>"), operator |-> "NotEqual"],
     [tok |-> B(">="), operator |-> "GreaterOrEqual"],
     [tok |-> B("<="), operator |-> "LessOrEqual"],
     [tok |-> B("="), operator |-> "Equal"],
     [tok |-> B("<"), operator |-> "Less"],
     [tok |-> B(">"), operator |-> "Greater"]}

(* s begins with t, whatever the case of its letters *)
BeginsWith(s, t) ==
    Len(t) <= Len(s) /\ \A k \in 1..Len(t) : Lower(s[k]) = Lower(t[k])

(* C9: binary_comparison_operator on a buffer that begins with an operator
   token returns the operator of the longest token the buffer begins with,
   whatever the case, and the remainder starts right after that token. *)
LongestOperatorToken ==
    (op = "binary_comparison_operator" /\ pc = "parsed") =>
        \A e \in OperatorTokens :
          (BeginsWith(input, e.tok)
           /\ \A f \in OperatorTokens :
                BeginsWith(input, f.tok) => Len(f.tok) <= Len(e.tok))
              => out = Done(Len(e.tok) + 1, e.operator)

(* "<=" followed by more input was read as LessOrEqual *)
LongestOperatorTokenWitness ==
    /\ op = "binary_comparison_operator" /\ pc = "parsed"
    /\ Len(input) > 2 /\ SubSeq(input, 1, 2) = B("<=")
    /\ out = Done(3, "LessOrEqual")

(* the bytes an identifier is made of *)
IdentifierBytes == LowerLetters \cup UpperLetters \cup Digits \cup {"_"}

(* the length of the longest run of identifier bytes of s from index from *)
IdentifierRun(s, from) ==
    CHOOSE n \in 0..Len(s) :
        /\ from + n - 1 <= Len(s)
        /\ \A k \in from..(from + n - 1) : s[k] \in IdentifierBytes
        /\ (from + n > Len(s) \/ s[from + n] \notin IdentifierBytes)

(* C10: sql_identifier accepts a bare run of identifier bytes only when it
   is not a reserved word, accepts a run delimited by backticks or by single
   quotes even when it is one, returns the run without the delimiters, and
   fails on any other input. *)
IdentifierRule ==
    (op = "sql_identifier" /\ pc = "parsed") =>
        LET bare == IdentifierRun(input, 1)
            quoted == IdentifierRun(input, 2)
        IN  IF bare > 0
            THEN out = (IF is_reserved(SubSeq(input, 1, bare)) THEN Failed
                        ELSE Done(bare + 1, SubSeq(input, 1, bare)))
            ELSE IF /\ Len(input) >= 2
                    /\ input[1] \in {Backtick, "'"}
                    /\ quoted > 0
                    /\ Len(input) >= quoted + 2
                    /\ input[quoted + 2] = input[1]
            THEN out = Done(quoted + 3, SubSeq(input, 2, quoted + 1))
            ELSE out = Failed

(* `primary` was accepted and returned as primary *)
IdentifierRuleWitness ==
    /\ op = "sql_identifier" /\ pc = "parsed"
    /\ input = <<Backtick>> \o B("primary") \o <<Backtick>>
    /\ out = Done(10, B("primary"))

(* a buffer of plain "<name> <type>" fields only: no flagged clause, no key,
   no foreign key *)
Plain == shape.flags = {} /\ shape.keys = 0 /\ shape.fkeys = 0

(* the type of a plain field as it is written in the buffer *)
SourceType(t) ==
    CASE t = SqlType("Int", Some(B("32"))) -> B("int")
      [] t = SqlType("Varchar", Some(B("80"))) -> B("varchar(80)")
      [] OTHER -> B("?")

(* a returned field written back as "<name> <type>" *)
SourceField(f) == f.column.name \o B(" ") \o SourceType(f.sql_type)

(* C12: on a plain CREATE TABLE t (f1 type1, ..., fn typen); creation
   returns Done with table.name = t, the n fields in source order with
   their declared types, keys = None, fkeys = None (never Some of an empty
   list) and nothing left of the buffer. *)
PlainCreateTable ==
    (Created /\ Plain) =>
        /\ out.st = "Done"
        /\ out.pos = Len(input) + 1
        /\ out.val.table.name = B("t")
        /\ out.val.keys = None
        /\ out.val.fkeys = None
        /\ Len(out.val.fields) = shape.fields
        /\ \E h \in Headers, t \in Tails :
             input = h.txt
                     \o Join([k \in 1..Len(out.val.fields) |->
                                 SourceField(out.val.fields[k])], B(", "))
                     \o t.txt

(* CREATE TABLE t(n varchar(80), x int); was parsed to its two fields *)
PlainCreateTableWitness ==
    /\ Created /\ Plain /\ out.st = "Done"
    /\ input = B("CREATE TABLE t(n varchar(80), x int);")
    /\ Len(out.val.fields) = 2
    /\ out.val.fields[1].column.name = B("n")
    /\ out.val.fields[2].sql_type = SqlType("Int", Some(B("32")))

(* the text a written field is to be rendered as: the name bare unless it
   is reserved, the type name in upper case with its parameter in
   parentheses, the constraints in the order written *)
RenderedField(name) ==
    CASE name = B("x") -> B("x INT(32)")
      [] name = B("n") -> B("n VARCHAR(80)")
      [] name = B("name") -> B("name VARCHAR(80) NOT NULL UNIQUE")
      [] name = B("y") -> B("y TEXT")
      [] name = B("key") -> Q("key") \o B(" VARCHAR(8) NOT NULL")
      [] name = B("z") -> B("z BIGINT(20) DEFAULT 7")
      [] OTHER -> B("?")

(* the rendering of a statement up to the end of its fields *)
RenderedFields(st) ==
    B("CREATE TABLE ") \o escape_if_keyword(st.table.name) \o B(" (")
    \o Join([k \in 1..Len(st.fields) |->
                RenderedField(st.fields[k].column.name)], B(", "))

(* C13: a field is rendered as "<name> <TYPE>(<param>) <constraints>": the
   name bare when it is not reserved, even when it was written between
   backticks, the type name in upper case with its parameter in
   parentheses, the constraints separated by spaces in the order stored. *)
FieldRendering ==
    pc \in {"rendered", "reparsed"} =>
        SubSeq(text, 1, Len(RenderedFields(out.val))) = RenderedFields(out.val)

(* the field written `name` varchar(80) NOT NULL UNIQUE was rendered as
   name VARCHAR(80) NOT NULL UNIQUE *)
FieldRenderingWitness ==
    /\ pc = "rendered"
    /\ shape.flags = {"constrained"} /\ shape.fields = 1
    /\ Contains(input, Q("name") \o B(" varchar(80) NOT NULL UNIQUE"))
    /\ text = B("CREATE TABLE t (name VARCHAR(80) NOT NULL UNIQUE)")

-----------------------------------------------------------------------------
(* Properties of foreign-key rendering, over SpecFK *)

(* a text without its whitespace and backticks, in lower case *)
Squeeze(t) ==
    LowerSeq(SelectSeq(t, LAMBDA c : ~is_space(c) /\ c # Backtick))

(* the names of a column list, reserved words between backticks, joined
   by commas *)
JoinedNames(columns) ==
    Join([k \in 1..Len(columns) |-> escape_if_keyword(columns[k].name)],
         B(","))

(* [CONSTRAINT <name> ]FOREIGN KEY(<from>) REFERENCES <table>(<to>) *)
ForeignKeyText(fk) ==
    (IF IsSome(fk.name)
     THEN B("CONSTRAINT ") \o Unwrap(fk.name) \o B(" ") ELSE <<>>)
    \o B("FOREIGN KEY(") \o JoinedNames(fk.from) \o B(") REFERENCES ")
    \o escape_if_keyword(fk.that_table.name)
    \o B("(") \o JoinedNames(fk.to) \o B(")")

(* C14: every foreign-key specification without a ref-action that
   foreign_key_specification_list accepts is rendered as
   [CONSTRAINT <name> ]FOREIGN KEY(<from>) REFERENCES <table>(<to>), the
   columns joined by ",": the same text whatever the whitespace and the
   backtick quoting of the buffer. *)
ForeignKeyRendering ==
    (op = "foreign_key_specification_list" /\ pc = "rendered"
     /\ "refaction" \notin shape.flags) =>
        /\ text = Join([k \in 1..Len(out.val) |-> ForeignKeyText(out.val[k])],
                       B(", "))
        /\ "malformed" \notin shape.flags =>
             /\ Len(out.val) = shape.fkeys
             /\ Squeeze(text) = Squeeze(input)

(* the specification written with spaces and backticks everywhere was
   rendered as FOREIGN KEY(x) REFERENCES u(y) *)
ForeignKeyRenderingWitness ==
    /\ op = "foreign_key_specification_list" /\ pc = "rendered"
    /\ shape.fkeys = 1
    /\ Contains(input, B("   (   ") \o Q("x"))
    /\ text = B("FOREIGN KEY(x) REFERENCES u(y)")

-----------------------------------------------------------------------------
(* Properties of the rendering of whole statements, over SpecStatement *)

(* the renderings of a statement's fields, then of its keys, then of its
   foreign keys; an absent list adds nothing *)
RenderedParts(st) ==
    [k \in 1..Len(st.fields) |-> RenderedField(st.fields[k].column.name)]
    \o (IF IsSome(st.keys)
        THEN [k \in 1..Len(Unwrap(st.keys)) |->
                 DisplayTableKey(Unwrap(st.keys)[k])]
        ELSE <<>>)
    \o (IF IsSome(st.fkeys)
        THEN [k \in 1..Len(Unwrap(st.fkeys)) |->
                 ForeignKeyText(Unwrap(st.fkeys)[k])]
        ELSE <<>>)

(* C15: a statement is rendered as "CREATE TABLE <name> (", the fields, the
   keys when present and the foreign keys when present, every one after
   the first preceded by ", ", then ")": keys before foreign keys, nothing
   for an absent list. *)
StatementRendering ==
    (op = "creation" /\ pc = "rendered") =>
        /\ text = B("CREATE TABLE ") \o escape_if_keyword(out.val.table.name)
                  \o B(" (") \o Join(RenderedParts(out.val), B(", "))
                  \o B(")")
        /\ Len(RenderedParts(out.val))
               = shape.fields + shape.keys + shape.fkeys

(* a statement with a field, a key and a foreign key was rendered, the key
   before the foreign key *)
StatementRenderingWitness ==
    /\ op = "creation" /\ pc = "rendered"
    /\ shape.fields = 1 /\ shape.keys = 1 /\ shape.fkeys = 1
    /\ text = B("CREATE TABLE t (name VARCHAR(80) NOT NULL UNIQUE, ")
              \o B("PRIMARY KEY (x), FOREIGN KEY(name) REFERENCES artist(name))")

-----------------------------------------------------------------------------
(* Properties of CREATE VIEW parsing, over SpecView *)

ViewCreated == op = "view_creation" /\ pc = "parsed"

(* C16: view_creation accepts a view written with named columns,
   CREATE VIEW v (a, b) AS SELECT ..., and returns Done; the fields of every
   statement it returns are empty. *)
ViewColumnsDiscarded ==
    ViewCreated =>
        /\ "malformed" \notin shape.flags => out.st = "Done"
        /\ out.st = "Done" => out.val.fields = <<>>

(* C17: the definition of a returned view is Compound when the buffer holds
   SELECTs joined by UNION and Simple when it holds a single SELECT: the
   compound grammar is tried first, at the same position, and the simple
   one only when it fails. *)
CompoundBeforeSimple ==
    (ViewCreated /\ shape.flags = {}) =>
        /\ out.st = "Done"
        /\ out.pos = Len(input) + 1
        /\ out.val.definition.kind
               = (IF shape.fields > 1 THEN "Compound" ELSE "Simple")
        /\ shape.fields > 1 => Len(out.val.definition.select) = shape.fields

(* CREATE VIEW v AS SELECT * FROM users UNION select x, y from `t`; was
   parsed to a Compound definition of two SELECTs *)
CompoundBeforeSimpleWitness ==
    /\ ViewCreated /\ shape.flags = {} /\ shape.fields = 2
    /\ out.st = "Done"
    /\ out.val.definition.kind = "Compound"
    /\ out.val.definition.select[1].fields = FieldAll
    /\ Len(out.val.definition.select[2].fields.cols) = 2

-----------------------------------------------------------------------------
(* Properties of the statement terminator, over SpecStatement *)

(* the index of the parenthesis that closes the clauses of the buffer *)
ClosingParenthesis == Last({k \in 1..Len(input) : input[k] = ")"})

(* the index of the first byte, from i on, that is not one of the bytes
   given *)
After(bytes, i) ==
    IF \A k \in i..Len(input) : input[k] \in bytes THEN Len(input) + 1
    ELSE CHOOSE k \in i..Len(input) :
           /\ input[k] \notin bytes
           /\ \A j \in i..(k - 1) : input[j] \in bytes

Blanks == {" ", "\t"}
Spaces == {" ", "\t", "\r", "\n"}

(* the index of the first byte after the closing parenthesis that is not a
   space or a tab *)
AfterBlanks == After(Blanks, ClosingParenthesis + 1)

(* C18: the statement terminator succeeds when what follows the optional
   whitespace is ";", a line ending or the end of the input, and it also
   consumes the whitespace after it; so a CREATE TABLE that ends at the end
   of the input, without ";", is parsed to Done. *)
TerminatorRule ==
    (Created /\ pc = "parsed") =>
        LET p == After(Spaces, ClosingParenthesis + 1)
        IN  /\ p > Len(input) => (out.st = "Done" /\ out.pos = p)
            /\ (p <= Len(input) /\ input[p] = ";")
                   => (out.st = "Done" /\ out.pos = After(Spaces, p + 1))
            /\ line_ending(input, AfterBlanks).st = "Done"
                   => (out.st = "Done"
                       /\ out.pos = After(Spaces, AfterBlanks))

-----------------------------------------------------------------------------
(* Properties of statement-by-statement parsing, over SpecBuffer *)

(* the index of the k-th ";" of the buffer *)
Semicolon(k) ==
    CHOOSE i \in 1..Len(input) :
      /\ input[i] = ";"
      /\ Cardinality({j \in 1..i : input[j] = ";"}) = k

(* the index at which the k-th statement of the buffer starts *)
StatementStart(k) ==
    IF k = 1 THEN 1 ELSE After(Spaces, Semicolon(k - 1) + 1)

(* the text of the k-th statement of the buffer, up to its ";" *)
StatementText(k) == SubSeq(input, StatementStart(k), Semicolon(k))

(* C19: when creation returns Done, what it consumed is a prefix of its
   input and its remainder is the rest; on a buffer of statements, each
   ended by ";" and separated by whitespace, the k-th invocation, made on
   the remainder of the one before, returns the k-th statement, and the
   last one leaves an empty remainder. *)
StatementByStatement ==
    (pc = "parsed" /\ shape.flags = {}) =>
        /\ out.st = "Done"
        /\ out.val = named("creation", StatementText(shape.keys), 1).val
        /\ text = Rest(input, After(Spaces, Semicolon(shape.keys) + 1))
        /\ shape.keys = shape.fields => text = <<>>

(* two statements were written and two invocations returned them, the
   second one leaving nothing *)
StatementByStatementWitness ==
    /\ pc = "parsed" /\ shape.flags = {}
    /\ shape.fields = 2 /\ shape.keys = 2
    /\ out.st = "Done" /\ out.val.table.name = B("u")
    /\ SubSeq(input, 1, 23) = B("CREATE TABLE t (x int);")
    /\ text = <<>>

-----------------------------------------------------------------------------
(* Properties of key_specification, over SpecKey *)

(* the indexes that bound the index columns of the buffer: the opening
   parenthesis, the commas, the closing parenthesis *)
ColumnBounds ==
    {First({i \in 1..Len(input) : input[i] = "("}), Len(input)}
    \cup {i \in 1..Len(input) : input[i] = ","}

(* the k-th of the bounds, from the left *)
ColumnBound(k) ==
    CHOOSE i \in ColumnBounds :
      Cardinality({j \in ColumnBounds : j <= i}) = k

(* the text of the k-th index column of the buffer *)
IndexColumnText(k) ==
    SubSeq(input, ColumnBound(k) + 1, ColumnBound(k + 1) - 1)

(* C20: every TableKey that key_specification returns holds at least one
   column, and holds the columns in the order written; a key written with
   an empty column list, PRIMARY KEY (), is not returned as a TableKey. *)
KeyColumnsNonEmpty ==
    (op = "key_specification" /\ pc = "parsed") =>
        /\ out.st = "Done" =>
             /\ Len(out.val.columns) >= 1
             /\ Len(out.val.columns) = shape.fields
             /\ \A k \in 1..Len(out.val.columns) :
                  Contains(IndexColumnText(k), out.val.columns[k].name)
        /\ shape.fields = 0 => out.st # "Done"

-----------------------------------------------------------------------------
(* Properties of column constraints, over SpecConstraint *)

(* the words of a text: its maximal runs of bytes other than spaces and
   commas, in lower case *)
RECURSIVE WordsFrom(_, _, _, _)
WordsFrom(t, i, word, acc) ==
    IF i > Len(t) THEN (IF word = <<>> THEN acc ELSE Append(acc, word))
    ELSE IF t[i] \in {" ", ","}
    THEN WordsFrom(t, i + 1, <<>>,
                   IF word = <<>> THEN acc ELSE Append(acc, word))
    ELSE WordsFrom(t, i + 1, Append(word, Lower(t[i])), acc)

Words(t) == WordsFrom(t, 1, <<>>, <<>>)

(* the literal a word after DEFAULT stands for *)
WrittenLiteral(word) ==
    IF word = B("null") THEN Literal("Null", <<>>, <<>>)
    ELSE IF word[1] = "'"
    THEN Literal("String", SubSeq(word, 2, Len(word) - 1), <<>>)
    ELSE Literal("Integer", word, <<>>)

(* the constraints that the words from the k-th on declare, in order; a
   bare NULL declares none *)
RECURSIVE WrittenConstraints(_, _)
WrittenConstraints(w, k) ==
    IF k > Len(w) THEN <<>>
    ELSE IF w[k] = B("not")
    THEN <<ColumnConstraint("NotNull", <<>>)>> \o WrittenConstraints(w, k + 2)
    ELSE IF w[k] = B("null") THEN WrittenConstraints(w, k + 1)
    ELSE IF w[k] = B("auto_increment")
    THEN <<ColumnConstraint("AutoIncrement", <<>>)>>
         \o WrittenConstraints(w, k + 1)
    ELSE IF w[k] = B("primary")
    THEN <<ColumnConstraint("PrimaryKey", <<>>)>>
         \o WrittenConstraints(w, k + 2)
    ELSE IF w[k] = B("unique")
    THEN <<ColumnConstraint("Unique", <<>>)>> \o WrittenConstraints(w, k + 1)
    ELSE IF w[k] = B("default")
    THEN <<ColumnConstraint("DefaultValue", WrittenLiteral(w[k + 1]))>>
         \o WrittenConstraints(w, k + 2)
    ELSE IF w[k] = B("collate")
    THEN <<ColumnConstraint("Collation", w[k + 1])>>
         \o WrittenConstraints(w, k + 2)
    ELSE <<ColumnConstraint("CharacterSet", w[k + 2])>>
         \o WrittenConstraints(w, k + 3)

(* C21: the constraints of a parsed field are, in declaration order,
   exactly the constraints written other than a bare NULL, which adds no
   entry; NOT NULL gives NotNull and is never read as NULL. *)
ConstraintOrder ==
    (op = "field_specification_list" /\ pc = "parsed" /\ shape.keys > 0
     /\ shape.flags = {}) =>
        /\ out.st = "Done"
        /\ Len(out.val) = 1
        /\ out.val[1].constraints = WrittenConstraints(Words(input), 3)

(* x int AUTO_INCREMENT NOT NULL PRIMARY KEY was parsed to
   [AutoIncrement, NotNull, PrimaryKey] *)
ConstraintOrderWitness ==
    /\ op = "field_specification_list" /\ pc = "parsed"
    /\ input = B("x int AUTO_INCREMENT NOT NULL PRIMARY KEY")
    /\ out.st = "Done"
    /\ out.val[1].constraints
           = <<ColumnConstraint("AutoIncrement", <<>>),
               ColumnConstraint("NotNull", <<>>),
               ColumnConstraint("PrimaryKey", <<>>)>>

-----------------------------------------------------------------------------
(* Properties of index column lengths and sort orders, over SpecIndex *)

(* C22: two CREATE TABLE statements that differ only in the length and the
   sort order written after the columns of a key both parse, and to equal
   CreateTableStatements. *)
IndexLengthOrderDiscarded ==
    pc = "reparsed" =>
        /\ out.st = "Done"
        /\ out2.st = "Done"
        /\ out.val = out2.val

-----------------------------------------------------------------------------
(* Properties of column_identifier, over SpecColumn *)

(* the index of the parenthesis that closes the function call of a buffer *)
CallEnd(s) == First({k \in 1..Len(s) : s[k] = ")"})

(* the function name written in a buffer, in lower case *)
WrittenFunction(s) ==
    LowerSeq(SubSeq(s, 1, First({k \in 1..Len(s) : s[k] = "("}) - 1))

(* the alias written at the end of a buffer: the text after the last blank,
   without its quotes *)
WrittenAlias(s) ==
    LET from == Last({k \in 1..Len(s) : s[k] = " "}) + 1
    IN  IF s[from] = Backtick THEN SubSeq(s, from + 1, Len(s) - 1)
        ELSE SubSeq(s, from, Len(s))

(* C23: column_identifier on a function call without alias returns a Column
   with the function, no alias, no table and the rendering of the function
   as its name; with an AS alias the name and the alias are the alias;
   column_identifier_no_alias returns no alias and the rendering as name
   whatever follows the call. *)
FunctionColumnNaming ==
    (pc = "parsed" /\ op \in {"column_identifier",
                              "column_identifier_no_alias"}) =>
        /\ out.st = "Done"
        /\ IsSome(out.val.function)
        /\ B(Unwrap(out.val.function).fn) = WrittenFunction(input)
        /\ out.val.table = None
        /\ IF op = "column_identifier" /\ "alias" \in shape.flags
           THEN /\ out.val.name = WrittenAlias(input)
                /\ out.val.alias = Some(WrittenAlias(input))
                /\ out.pos = Len(input) + 1
           ELSE /\ out.val.name
                     = DisplayFunctionExpression(Unwrap(out.val.function))
                /\ out.val.alias = None
                /\ out.pos = CallEnd(input) + 1

FunctionColumnNamingWitness ==
    /\ pc = "parsed" /\ op = "column_identifier"
    /\ input = B("MAX(x)")
    /\ out.st = "Done"
    /\ out.val = Column(B("max(x)"), None, None,
                        Some(FunctionExpression("max",
                            FieldSeq(<<Column(B("x"), None, None, None)>>),
                            <<>>)))

-----------------------------------------------------------------------------
(* Properties of binary_logical_operator, over SpecLogical *)

(* the number of blanks at the start of a buffer *)
LeadingBlanks(s) ==
    IF \A k \in 1..Len(s) : s[k] \in {" ", "\t"} THEN Len(s)
    ELSE First({k \in 1..Len(s) : s[k] \notin {" ", "\t"}}) - 1

(* the buffer reads word, in any case, from index i and a blank follows *)
WordThenBlank(s, i, word) ==
    /\ Len(s) >= i + Len(word)
    /\ LowerSeq(SubSeq(s, i, i + Len(word) - 1)) = word
    /\ s[i + Len(word)] \in {" ", "\t"}

(* C24: binary_logical_operator returns And for and, Or for or, in any
   case, exactly when the word has white space before it and after it; it
   fails in every other case. *)
LogicalOperatorSurrounded ==
    (op = "binary_logical_operator" /\ pc = "parsed") =>
        LET n == LeadingBlanks(input) IN
        /\ out.st \in {"Done", "Failed"}
        /\ out.st = "Done" <=>
              /\ n > 0
              /\ \/ WordThenBlank(input, n + 1, B("and"))
                 \/ WordThenBlank(input, n + 1, B("or"))
        /\ out.st = "Done" =>
              out.val = IF WordThenBlank(input, n + 1, B("and"))
                        THEN "And" ELSE "Or"

-----------------------------------------------------------------------------
(* Properties of the commas between field specifications, over SpecFields *)

FieldLetters == {"x", "y", "z", "w"}

IsFieldLetter(c) == c \in FieldLetters

(* the names of the fields written in a buffer, in source order *)
WrittenFieldNames(s) == SelectSeq(s, IsFieldLetter)

(* the indexes of the blanks that stand between two field specifications
   without a comma *)
CommaGaps(s) ==
    {k \in 2..(Len(s) - 1) :
        /\ s[k] = " " /\ s[k - 1] # ","
        /\ s[k + 1] \in FieldLetters \cup {Backtick}}

(* the names of the fields written before the first missing comma *)
CommaSeparatedNames(s) ==
    IF CommaGaps(s) = {} THEN WrittenFieldNames(s)
    ELSE WrittenFieldNames(SubSeq(s, 1, First(CommaGaps(s))))

(* C25: field_specification_list returns one entry per field, in source
   order, when every field is followed by a comma, and reads no field
   after a field that no comma follows. *)
FieldsNeedComma ==
    (op = "field_specification_list" /\ pc = "parsed") =>
        /\ out.st = "Done"
        /\ [j \in 1..Len(out.val) |-> out.val[j].column.name[1]]
               = CommaSeparatedNames(input)

-----------------------------------------------------------------------------
(* Properties of the ON clauses of a foreign key, over SpecRefAction *)

(* the ON clauses written in a buffer: the text after the parenthesis that
   closes the referenced columns *)
WrittenRefActions(s) ==
    LET close == Last({k \in 1..Len(s) : s[k] = ")"})
    IN  SubSeq(s, close + 1, Len(s))

(* the words of a text as written, split at blanks *)
RECURSIVE RawWordsFrom(_, _, _, _)
RawWordsFrom(t, i, word, acc) ==
    IF i > Len(t)
    THEN (IF Len(word) > 0 THEN Append(acc, word) ELSE acc)
    ELSE IF t[i] = " "
    THEN RawWordsFrom(t, i + 1, <<>>,
                      IF Len(word) > 0 THEN Append(acc, word) ELSE acc)
    ELSE RawWordsFrom(t, i + 1, Append(word, t[i]), acc)

RawWords(t) == RawWordsFrom(t, 1, <<>>, <<>>)

(* the action words of the ON ... RESTRICT clauses that start the words w
   from index k, as written *)
RECURSIVE RestrictedFrom(_, _)
RestrictedFrom(w, k) ==
    IF /\ k + 2 <= Len(w)
       /\ LowerSeq(w[k]) = B("on")
       /\ LowerSeq(w[k + 1]) \in {B("delete"), B("update")}
       /\ LowerSeq(w[k + 2]) = B("restrict")
    THEN <<w[k + 1]>> \o RestrictedFrom(w, k + 3)
    ELSE <<>>

(* ON <X> RESTRICT for every action word, joined by one space *)
RECURSIVE FoldedRefActions(_)
FoldedRefActions(xs) ==
    IF Len(xs) = 1 THEN B("ON ") \o xs[1] \o B(" RESTRICT")
    ELSE B("ON ") \o xs[1] \o B(" RESTRICT ") \o FoldedRefActions(Tail(xs))

(* C26: the ref_action of a foreign key followed by ON <X> RESTRICT clauses
   is ON <X> RESTRICT for each of them, X as written, joined by one space in
   source order; it is None without such a clause, and a clause with
   another action is not folded. *)
RefActionFolding ==
    (op = "foreign_key_specification_list" /\ pc = "parsed") =>
        LET xs == RestrictedFrom(RawWords(WrittenRefActions(input)), 1) IN
        /\ out.st = "Done"
        /\ Len(out.val) = 1
        /\ out.val[1].ref_action
               = IF Len(xs) = 0 THEN None ELSE Some(FoldedRefActions(xs))

RefActionFoldingWitness ==
    /\ op = "foreign_key_specification_list" /\ pc = "parsed"
    /\ input = B("FOREIGN KEY(x) REFERENCES u(y) ON DELETE RESTRICT")
                   \o B(" on update restrict ON DELETE CASCADE")
    /\ out.st = "Done"
    /\ out.val[1].ref_action
           = Some(B("ON DELETE RESTRICT ON update RESTRICT"))

-----------------------------------------------------------------------------
(* Properties of the name attachment of creation, over SpecFrame *)

(* two columns are equal but for their table *)
SameButTable(a, b) ==
    /\ a.name = b.name
    /\ a.alias = b.alias
    /\ a.function = b.function

(* two lists of columns are equal but for the tables of the columns *)
SameColumnsButTable(as, bs) ==
    /\ Len(as) = Len(bs)
    /\ \A k \in 1..Len(as) : SameButTable(as[k], bs[k])

(* C27: the statement creation returns holds the fields, keys and foreign
   keys its sub-parsers returned, in number and order, with nothing changed
   but the table of the columns of fields and keys; the foreign keys are
   the same and their columns carry no table. *)
AttachmentFrame ==
    (pc = "reparsed" /\ op = "creation" /\ out.st = "Done") =>
        /\ out2.st = "Done"
        /\ Len(out.val.fields) = Len(out2.val.fields)
        /\ \A k \in 1..Len(out.val.fields) :
             LET a == out.val.fields[k]
                 b == out2.val.fields[k]
             IN  /\ SameButTable(a.column, b.column)
                 /\ a.column.table = Some(out.val.table.name)
                 /\ a.sql_type = b.sql_type
                 /\ a.constraints = b.constraints
                 /\ a.comment = b.comment
        /\ IsSome(out.val.keys) = IsSome(out2.val.keys)
        /\ IsSome(out.val.keys) =>
             LET ks == Unwrap(out.val.keys)
                 ls == Unwrap(out2.val.keys)
             IN  /\ Len(ks) = Len(ls)
                 /\ \A k \in 1..Len(ks) :
                      /\ ks[k].kind = ls[k].kind
                      /\ ks[k].name = ls[k].name
                      /\ SameColumnsButTable(ks[k].columns, ls[k].columns)
                      /\ \A c \in 1..Len(ks[k].columns) :
                           ks[k].columns[c].table = Some(out.val.table.name)
        /\ out.val.fkeys = out2.val.fkeys
        /\ IsSome(out.val.fkeys) =>
             \A k \in 1..Len(Unwrap(out.val.fkeys)) :
                LET fk == Unwrap(out.val.fkeys)[k] IN
                /\ \A c \in 1..Len(fk.from) : fk.from[c].table = None
                /\ \A c \in 1..Len(fk.to) : fk.to[c].table = None

AttachmentFrameWitness ==
    /\ pc = "reparsed" /\ op = "creation"
    /\ input = FrameHeader \o B("o.z text, UNIQUE KEY k (o.x, y), ")
                   \o B("FOREIGN KEY(x) REFERENCES u(y))")
    /\ out.st = "Done" /\ out2.st = "Done"
    /\ out2.val.fields[1].column.table = Some(B("o"))
    /\ out.val.fields[1].column.table = Some(B("t"))
    /\ Unwrap(out2.val.keys)[1].columns[2].table = None
    /\ Unwrap(out.val.keys)[1].columns[2].table = Some(B("t"))
    /\ Unwrap(out.val.keys)[1].name = Some(B("k"))
    /\ Unwrap(out.val.fkeys)[1].from[1].table = None

-----------------------------------------------------------------------------
(* Properties of the names of keys, over SpecKeyName *)

(* the name written before the columns of a key: the last word before the
   parenthesis, without its quotes *)
WrittenKeyName(s) ==
    LET open == First({k \in 1..Len(s) : s[k] = "("})
        to == IF s[open - 1] = " " THEN open - 2 ELSE open - 1
        from == Last({k \in 1..to : s[k] = " "}) + 1
    IN  IF s[from] = Backtick THEN SubSeq(s, from + 1, to - 1)
        ELSE SubSeq(s, from, to)

(* C28: the name of a UNIQUE or FULLTEXT key is the whole identifier written
   before the parenthesis, and None when none is written; a PRIMARY KEY has
   no name and a plain KEY or INDEX is read only with one. *)
KeyNameWhole ==
    (op = "key_specification" /\ pc = "parsed") =>
        LET name == IF "name" \in shape.flags
                    THEN Some(WrittenKeyName(input)) ELSE None
        IN  /\ shape.flags \cap {"unique", "fulltext"} # {} =>
                 /\ out.st = "Done"
                 /\ out.val.kind = IF "unique" \in shape.flags
                                   THEN "UniqueKey" ELSE "FulltextKey"
                 /\ out.val.name = name
            /\ "primary" \in shape.flags =>
                 IF "name" \in shape.flags THEN out.st = "Failed"
                 ELSE /\ out.st = "Done"
                      /\ out.val = TableKey("PrimaryKey", None, out.val.columns)
            /\ "plain" \in shape.flags =>
                 IF "name" \notin shape.flags THEN out.st = "Failed"
                 ELSE /\ out.st = "Done"
                      /\ out.val.kind = "Key"
                      /\ out.val.name = name

-----------------------------------------------------------------------------
(* Properties of column_function, over SpecFn *)

(* the indexes of the single quotes of a buffer *)
QuoteIndexes(s) == {k \in 1..Len(s) : s[k] = "'"}

(* the text between the quotes of the SEPARATOR clause of a buffer, and a
   comma when the buffer has no such clause *)
WrittenSeparator(s) ==
    IF QuoteIndexes(s) = {} THEN <<",">>
    ELSE SubSeq(s, First(QuoteIndexes(s)) + 1, Last(QuoteIndexes(s)) - 1)

(* C11: column_function on a group_concat call returns GroupConcat whose
   separator is the text between the quotes of the SEPARATOR clause when
   the clause is written, and a comma when it is not. *)
GroupConcatSeparator ==
    (op = "column_function" /\ pc = "parsed"
     /\ "group_concat" \in shape.flags)
        => /\ out.st = "Done"
           /\ out.val.fn = "group_concat"
           /\ out.val.sep = WrittenSeparator(input)

=============================================================================
